---------------------------- MODULE Spec2Model ----------------------------
(***************************************************************************)
(* A model of the wadtools core of league-mod: the WAD hashtable           *)
(* (utils/hashtable.rs), the chunk diff (commands/diff.rs) and the         *)
(* extraction engine (extractor.rs), with the filter pattern               *)
(* (utils/mod.rs) and the extract command (commands/extract.rs).           *)
(*                                                                         *)
(* Strings are sequences of one-character strings.  A u64 is a tuple of    *)
(* four 16-bit limbs, most significant first, because TLC's integers      *)
(* are 32 bits wide.                                                       *)
(***************************************************************************)
EXTENDS Integers, Sequences, FiniteSets, TLC

VARIABLES
    items,        \* WadHashtable.items : u64 -> path
    loaded,       \* history: the records inserted so far, oldest first
    hstatus,      \* "ready", or "panicked" once the process has panicked
    lastCall,     \* the last add_from_file / add_from_dir call and its outcome
    resolved,     \* the last resolve_path call: hash and returned string
    nloads,       \* number of add_from_file / add_from_dir calls made
    refWad,       \* diff: reference_wad.chunks() : hash -> checksum
    tgtWad,       \* diff: target_wad.chunks()    : hash -> checksum
    refOrder,     \* diff: iteration order of the reference HashMap
    tgtOrder,     \* diff: iteration order of the target HashMap
    toCsv,        \* diff: args.output.is_some()
    diffs,        \* diff: the Vec<ChunkDiff> of collect_diffs
    dpc,          \* diff: position in diff()
    report,       \* diff: what diff() printed or wrote, in order
    xChunks,      \* extract: the chunk map, hash -> [data, corrupt]
    xRemaining,   \* extract: hashes the loop over chunks.values() has not visited
    xPattern,     \* extract: filter_pattern, Option<&Regex>
    xTypes,       \* extract: filter_type, Option<&[LeagueFileKind]>
    xDirs,        \* extract: directories under the extract directory
    xFiles,       \* extract: files under the extract directory, path -> bytes
    xI,           \* extract: i
    xCount,       \* extract: extracted_count
    xStatus,      \* extract: "idle", "running", "ok" (returned Ok) or "err"
    xError,       \* extract: the error returned
    xEvents,      \* extract: progress calls, decompressions and writes, in order
    xRun,         \* extract: 1 in the first run over a destination, 2 in the second
    xFirst,       \* extract: the files the first run left
    cArgs,        \* extract command: ExtractArgs and the destination it finds
    cPc,          \* extract command: position in extract()
    cCause,       \* extract command: what made it fail
    lChunks,      \* list: wad.chunks(), hash -> [compressed_size, uncompressed_size]
    lRemaining,   \* list: hashes the loop has not visited
    lPattern,     \* list: filter_pattern
    lTypes,       \* list: args.filter_type
    lInfo,        \* list: chunks_info
    lTotals,      \* list: total_compressed and total_uncompressed
    lOverall,     \* list: overall_ratio
    lPc,          \* list: position in list()
    sChampion,    \* swap: champion argument of remap_path
    sFrom,        \* swap: from_skin
    sTo,          \* swap: to_skin
    sPath,        \* swap: file_path
    sResult,      \* swap: the Option<String> returned
    sPc,          \* swap: position of the caller
    dRun,         \* diff run twice: 1 in the first run, 2 in the second
    dFirst,       \* diff run twice: the diffs of the first run
    pStop,        \* patcher: PatcherStateInner.stop_flag
    pHandle,      \* patcher: thread_handle, 0 for None, else the thread
    pConfig,      \* patcher: whether config_path is Some
    pThreads,     \* patcher: the threads, by the call that spawned them
    pCalls,       \* patcher: the start_patcher / stop_patcher calls
    pLeague,      \* patcher: whether the game is running
    kToken,       \* skins: PatcherStateInner.cancel_token, 0 for None
    kChild,       \* skins: PatcherStateInner.child_process, 0 for None
    kCancelled,   \* skins: the tokens that have been cancelled
    kChildren,    \* skins: the runoverlay processes, by the call that spawned them
    kCalls        \* skins: the run_skin / stop_all_mods calls

hashVars == <<items, loaded, hstatus, lastCall, resolved, nloads>>
diffVars == <<refWad, tgtWad, refOrder, tgtOrder, toCsv, diffs, dpc, report>>
extractVars == <<xChunks, xRemaining, xPattern, xTypes, xDirs, xFiles, xI, xCount,
                 xStatus, xError, xEvents, xRun, xFirst>>
commandVars == <<cArgs, cPc, cCause>>
listVars == <<lChunks, lRemaining, lPattern, lTypes, lInfo, lTotals, lOverall, lPc>>
swapVars == <<sChampion, sFrom, sTo, sPath, sResult, sPc>>
orderVars == <<dRun, dFirst>>
patcherVars == <<pStop, pHandle, pConfig, pThreads, pCalls, pLeague>>
skinVars == <<kToken, kChild, kCancelled, kChildren, kCalls>>
appVars == <<listVars, swapVars, orderVars, patcherVars, skinVars>>
vars == <<hashVars, diffVars, extractVars, commandVars, appVars>>

----------------------------------------------------------------------------
(* Characters and strings *)

HexLower == <<"0","1","2","3","4","5","6","7","8","9","a","b","c","d","e","f">>
HexUpper == <<"0","1","2","3","4","5","6","7","8","9","A","B","C","D","E","F">>

\* The characters the model uses, in ASCII order.
Ascii ==
    <<" ", "+", "-", ".", "/",
      "0","1","2","3","4","5","6","7","8","9",
      "A","B","C","D","E","F","G","H","I","J","K","L","M",
      "N","O","P","Q","R","S","T","U","V","W","X","Y","Z", "_",
      "a","b","c","d","e","f","g","h","i","j","k","l","m",
      "n","o","p","q","r","s","t","u","v","w","x","y","z">>

ByteOf(c) == CHOOSE i \in 1..Len(Ascii) : Ascii[i] = c

\* str::cmp: bytewise lexicographic order, a proper prefix is smaller.
RECURSIVE StrLess(_, _)
StrLess(a, b) ==
    IF b = <<>> THEN FALSE
    ELSE IF a = <<>> THEN TRUE
    ELSE IF Head(a) = Head(b) THEN StrLess(Tail(a), Tail(b))
    ELSE ByteOf(Head(a)) < ByteOf(Head(b))

StrLeq(a, b) == a = b \/ StrLess(a, b)

\* str::split(' '): the pieces between single spaces (always at least one).
RECURSIVE SplitSpace(_)
SplitSpace(s) ==
    IF \A i \in 1..Len(s) : s[i] # " " THEN <<s>>
    ELSE LET k == CHOOSE i \in 1..Len(s) :
                      s[i] = " " /\ \A j \in 1..(i-1) : s[j] # " "
         IN <<SubSeq(s, 1, k-1)>> \o SplitSpace(SubSeq(s, k+1, Len(s)))

\* itertools::join(components, " ")
RECURSIVE JoinSpace(_)
JoinSpace(parts) ==
    IF parts = <<>> THEN <<>>
    ELSE IF Len(parts) = 1 THEN parts[1]
    ELSE parts[1] \o <<" ">> \o JoinSpace(Tail(parts))

----------------------------------------------------------------------------
(* u64 arithmetic on 16-bit limbs *)

LimbBase == 16 * 16 * 16 * 16

U64Zero == <<0, 0, 0, 0>>

\* (h / 16, h % 16) by long division over the limbs.
DivMod16(h) ==
    LET q1 == h[1] \div 16
        r1 == h[1] % 16
        q2 == (r1 * LimbBase + h[2]) \div 16
        r2 == (r1 * LimbBase + h[2]) % 16
        q3 == (r2 * LimbBase + h[3]) \div 16
        r3 == (r2 * LimbBase + h[3]) % 16
        q4 == (r3 * LimbBase + h[4]) \div 16
        r4 == (r3 * LimbBase + h[4]) % 16
    IN [quot |-> <<q1, q2, q3, q4>>, rem |-> r4]

\* checked_mul(16) then checked_add(d): overflow when the result needs a 65th bit.
MulAdd16(h, d) ==
    LET t4 == h[4] * 16 + d
        t3 == h[3] * 16 + (t4 \div LimbBase)
        t2 == h[2] * 16 + (t3 \div LimbBase)
        t1 == h[1] * 16 + (t2 \div LimbBase)
    IN [overflow |-> t1 >= LimbBase,
        val |-> <<t1 % LimbBase, t2 % LimbBase, t3 % LimbBase, t4 % LimbBase>>]

\* char::to_digit(16): 0..15, or -1 when c is no hexadecimal digit.
ToDigit16(c) ==
    IF \E i \in 1..16 : HexLower[i] = c
    THEN (CHOOSE i \in 1..16 : HexLower[i] = c) - 1
    ELSE IF \E i \in 1..16 : HexUpper[i] = c
    THEN (CHOOSE i \in 1..16 : HexUpper[i] = c) - 1
    ELSE -1

RECURSIVE ParseDigits(_, _)
ParseDigits(s, acc) ==
    IF s = <<>> THEN [ok |-> TRUE, val |-> acc]
    ELSE IF ToDigit16(Head(s)) < 0 THEN [ok |-> FALSE, val |-> U64Zero]
    ELSE LET m == MulAdd16(acc, ToDigit16(Head(s)))
         IN IF m.overflow THEN [ok |-> FALSE, val |-> U64Zero]
            ELSE ParseDigits(Tail(s), m.val)

\* u64::from_str_radix(s, 16): Err on the empty string, on a lone sign, on a
\* character that is no hex digit and on overflow; one leading '+' is accepted.
FromStrRadix16(s) ==
    IF s = <<>> THEN [ok |-> FALSE, val |-> U64Zero]
    ELSE IF Len(s) = 1 /\ s[1] \in {"+", "-"} THEN [ok |-> FALSE, val |-> U64Zero]
    ELSE IF s[1] = "+" THEN ParseDigits(Tail(s), U64Zero)
    ELSE ParseDigits(s, U64Zero)

\* The digits of {:x}: least significant digit last, no leading zeros.
RECURSIVE LowerHexDigits(_)
LowerHexDigits(h) ==
    LET dm == DivMod16(h)
    IN IF dm.quot = U64Zero THEN <<HexLower[dm.rem + 1]>>
       ELSE LowerHexDigits(dm.quot) \o <<HexLower[dm.rem + 1]>>

RECURSIVE PadZeroLeft(_, _)
PadZeroLeft(s, width) ==
    IF Len(s) >= width THEN s ELSE PadZeroLeft(<<"0">> \o s, width)

\* Mutant: one digit short of the width.
FormatWidth15(path_hash) == PadZeroLeft(LowerHexDigits(path_hash), 15)

\* format!("{:016x}", path_hash)
format_chunk_path_hash(path_hash) == PadZeroLeft(LowerHexDigits(path_hash), 16)

----------------------------------------------------------------------------
(* WadHashtable (utils/hashtable.rs) *)

MaxLoads == 2

EmptyTable == [h \in {} |-> <<>>]

\* Mutant: an insert that keeps the entry already present (first writer wins).
InsertKeepFirst(tbl, h, p) ==
    [x \in DOMAIN tbl \cup {h} |-> IF x \in DOMAIN tbl THEN tbl[x] ELSE p]

\* HashMap::insert as add_from_file uses it: the new value replaces the old.
HashMapInsert(tbl, h, p) ==
    [x \in DOMAIN tbl \cup {h} |-> IF x = h THEN p ELSE tbl[x]]

resolve_path(tbl, path_hash) ==
    IF path_hash \in DOMAIN tbl THEN tbl[path_hash]
    ELSE format_chunk_path_hash(path_hash)

\* A line read from a source: its text, or an I/O error (ok = FALSE), at
\* which `while let Some(Ok(line))` leaves the loop.
TextLine(t) == [ok |-> TRUE, text |-> t]
IoErrLine == [ok |-> FALSE, text |-> <<>>]

\* The loop of add_from_file over the lines still unread.  outcome is "ok"
\* (Ok(())), "err" (an Err returned) or "panic" (.expect on a hash field that
\* does not parse); log is the records inserted, oldest first.
RECURSIVE LoadLines(_, _, _)
LoadLines(tbl, lines, log) ==
    IF lines = <<>> \/ ~Head(lines).ok
    THEN [items |-> tbl, log |-> log, outcome |-> "ok"]
    ELSE LET components == SplitSpace(Head(lines).text)
         IN IF components = <<>>
            THEN [items |-> tbl, log |-> log, outcome |-> "err"]
            ELSE LET hash == FromStrRadix16(Head(components))
                     path == JoinSpace(Tail(components))
                 IN IF ~hash.ok
                    THEN [items |-> tbl, log |-> log, outcome |-> "panic"]
                    ELSE LoadLines(HashMapInsert(tbl, hash.val, path), Tail(lines),
                                   Append(log, [hash |-> hash.val, path |-> path]))

add_from_file(tbl, lines, log) == LoadLines(tbl, lines, log)

\* A directory entry that is a regular file: its lines, or a file that
\* File::open cannot open.
DirFile(lines) == [openable |-> TRUE, lines |-> lines]
Unopenable == [openable |-> FALSE, lines |-> <<>>]

\* add_from_dir over the files in the order WalkDir yields them.
RECURSIVE add_from_dir(_, _, _)
add_from_dir(tbl, files, log) ==
    IF files = <<>> THEN [items |-> tbl, log |-> log, outcome |-> "ok"]
    ELSE IF ~Head(files).openable
    THEN [items |-> tbl, log |-> log, outcome |-> "err"]
    ELSE LET r == add_from_file(tbl, Head(files).lines, log)
         IN IF r.outcome # "ok" THEN r
            ELSE add_from_dir(r.items, Tail(files), r.log)

\* Sample sources.
Zeros(n) == [i \in 1..n |-> "0"]
PathIcon == <<"A","s","s","e","t","s","/","i","c","o","n",".","p","n","g">>
PathSpaced == <<"a"," ","b">>
PathChars == <<"d","a","t","a","/","c","h","a","r","a","c","t","e","r","s">>
LIcon == TextLine(Zeros(15) \o <<"1", " ">> \o PathIcon)
LIconB == TextLine(Zeros(15) \o <<"1", " ">> \o PathSpaced)
LUpper == TextLine(Zeros(12) \o <<"A","B","C","D"," ">> \o PathChars)
LShort == TextLine(<<"1", " ", "x">>)
LBadDigit == TextLine(<<"z","z"," ","p">>)
LEmpty == TextLine(<<>>)
LOverflow == TextLine(<<"1">> \o Zeros(16) \o <<" ","p">>)

SampleFiles ==
    { <<>>, <<LIcon>>, <<LIcon, LIconB>>, <<LUpper>>,
      <<LShort, IoErrLine, LUpper>>,
      <<LIconB, LBadDigit, LUpper>>, <<LEmpty>>, <<LUpper, LOverflow>> }

SampleDirs ==
    { {DirFile(<<LIcon>>), DirFile(<<LIconB, LUpper>>)},
      {DirFile(<<LShort>>), Unopenable},
      {DirFile(<<LUpper, LBadDigit>>)} }

Orderings(S) ==
    {s \in [1..Cardinality(S) -> S] : \A i, j \in 1..Cardinality(S) : s[i] = s[j] => i = j}

\* The hashes resolve_path is asked for: 0, 1, 0xa, 0xf0, 0xabcd, 0x10000,
\* 2^32 - 1, 2^64 - 2^32, 2^63, 2^63 - 1, 2^60, 0x100000000000000f,
\* 0x0123456789abcdef, 0x0fedcba987654321 and 2^64 - 1.
SampleHashes ==
    { <<0, 0, 0, 0>>, <<0, 0, 0, 1>>, <<0, 0, 0, 10>>, <<0, 0, 0, 240>>,
      <<0, 0, 0, 43981>>, <<0, 0, 1, 0>>,
      <<0, 0, LimbBase - 1, LimbBase - 1>>, <<LimbBase - 1, LimbBase - 1, 0, 0>>,
      <<32768, 0, 0, 0>>, <<32767, LimbBase - 1, LimbBase - 1, LimbBase - 1>>,
      <<4096, 0, 0, 0>>, <<4096, 0, 0, 15>>,
      <<291, 17767, 35243, 52719>>, <<4077, 52137, 34661, 17185>>,
      <<LimbBase - 1, LimbBase - 1, LimbBase - 1, LimbBase - 1>> }

\* Whether a source holds a line whose hash field is not valid hexadecimal.
HasMalformedLine(lines) ==
    \E i \in 1..Len(lines) :
        lines[i].ok /\ ~FromStrRadix16(Head(SplitSpace(lines[i].text))).ok

NoCall == [op |-> "none", outcome |-> "ok", malformed |-> FALSE, before |-> EmptyTable]
NoResolve == [called |-> FALSE, hash |-> U64Zero, path |-> <<>>, hit |-> FALSE]

HashtableNew ==
    /\ items = EmptyTable
    /\ loaded = <<>>
    /\ hstatus = "ready"
    /\ lastCall = NoCall
    /\ resolved = NoResolve
    /\ nloads = 0

AfterLoad(r, op, malformed) ==
    /\ items' = r.items
    /\ loaded' = r.log
    /\ hstatus' = IF r.outcome = "panic" THEN "panicked" ELSE "ready"
    /\ lastCall' = [op |-> op, outcome |-> r.outcome, malformed |-> malformed,
                    before |-> items]
    /\ nloads' = nloads + 1
    /\ UNCHANGED resolved

AddFromFile ==
    /\ hstatus = "ready"
    /\ nloads < MaxLoads
    /\ \E f \in SampleFiles :
          AfterLoad(add_from_file(items, f, loaded), "add_from_file", HasMalformedLine(f))
    /\ UNCHANGED <<diffVars, extractVars, commandVars, appVars>>

AddFromDir ==
    /\ hstatus = "ready"
    /\ nloads < MaxLoads
    /\ \E d \in SampleDirs : \E files \in Orderings(d) :
          AfterLoad(add_from_dir(items, files, loaded), "add_from_dir",
                    \E i \in 1..Len(files) : HasMalformedLine(files[i].lines))
    /\ UNCHANGED <<diffVars, extractVars, commandVars, appVars>>

ResolvePath ==
    /\ hstatus = "ready"
    /\ \E h \in SampleHashes :
          resolved' = [called |-> TRUE, hash |-> h, path |-> resolve_path(items, h),
                       hit |-> h \in DOMAIN items]
    /\ UNCHANGED <<items, loaded, hstatus, lastCall, nloads>>
    /\ UNCHANGED <<diffVars, extractVars, commandVars, appVars>>

----------------------------------------------------------------------------
(* Chunk diff (commands/diff.rs) *)

NumHashes == 3

\* Path hashes and checksums of the sample chunk directories.  A chunk's
\* sizes play no part in collect_diffs or in the order of the report.
DiffHashes == {<<0, 0, 0, i>> : i \in 1..NumHashes}
Checksums == {8, 9}
WadMaps == UNION {[D -> Checksums] : D \in SUBSET DiffHashes}

\* The hashtable sources diff() is run with.
DiffSources == { <<>>, <<LShort>> }

Chunk(wad, h) == [path_hash |-> h, checksum |-> wad[h]]

\* The first loop of collect_diffs, over the reference chunks still to visit.
RECURSIVE RefPass(_, _, _)
RefPass(ref, tgt, order) ==
    IF order = <<>> THEN <<>>
    ELSE LET h == Head(order)
             rest == RefPass(ref, tgt, Tail(order))
         IN IF h \notin DOMAIN tgt
            THEN <<[kind |-> "Removed", old |-> Chunk(ref, h), new |-> Chunk(ref, h)]>> \o rest
            ELSE IF tgt[h] # ref[h]
            THEN <<[kind |-> "Modified", old |-> Chunk(ref, h), new |-> Chunk(tgt, h)]>> \o rest
            ELSE rest

\* Mutant: a find whose predicate accepts every reference chunk.
FindFirstChunk(ref, order, checksum) ==
    IF order = <<>> THEN [found |-> FALSE, chunk |-> [path_hash |-> U64Zero, checksum |-> 0]]
    ELSE [found |-> TRUE, chunk |-> Chunk(ref, order[1])]

\* reference_wad.chunks().values().find(|chunk| chunk.checksum == checksum):
\* the first reference chunk, in the map's iteration order, with that checksum.
FindByChecksum(ref, order, checksum) ==
    LET hits == {i \in 1..Len(order) : ref[order[i]] = checksum}
    IN IF hits = {} THEN [found |-> FALSE, chunk |-> [path_hash |-> U64Zero, checksum |-> 0]]
       ELSE [found |-> TRUE,
             chunk |-> Chunk(ref, order[CHOOSE i \in hits : \A j \in hits : i <= j])]

\* The second loop of collect_diffs, over the target chunks still to visit.
RECURSIVE TgtPass(_, _, _, _)
TgtPass(ref, tgt, rorder, order) ==
    IF order = <<>> THEN <<>>
    ELSE LET h == Head(order)
             rest == TgtPass(ref, tgt, rorder, Tail(order))
             renamed_chunk == FindByChecksum(ref, rorder, tgt[h])
         IN IF h \in DOMAIN ref THEN rest
            ELSE IF renamed_chunk.found
            THEN <<[kind |-> "Renamed", old |-> renamed_chunk.chunk, new |-> Chunk(tgt, h)]>> \o rest
            ELSE <<[kind |-> "New", old |-> Chunk(tgt, h), new |-> Chunk(tgt, h)]>> \o rest

collect_diffs(ref, tgt, rorder, torder) ==
    RefPass(ref, tgt, rorder) \o TgtPass(ref, tgt, rorder, torder)

\* The line print_diffs prints for one diff: its sign and the resolved paths.
PrintLine(tbl, d) ==
    [diff_type |-> d.kind,
     sign |-> IF d.kind = "New" THEN "+" ELSE IF d.kind = "Removed" THEN "-" ELSE "!",
     hash |-> format_chunk_path_hash(d.old.path_hash),
     path |-> resolve_path(tbl, d.old.path_hash),
     new_path |-> IF d.kind = "Renamed" THEN resolve_path(tbl, d.new.path_hash) ELSE <<>>]

print_diffs(tbl, ds) == [i \in 1..Len(ds) |-> PrintLine(tbl, ds[i])]

\* The record create_csv_records makes of one diff.
CsvRecord(tbl, d) ==
    [diff_type |-> IF d.kind = "New" THEN "new" ELSE IF d.kind = "Removed" THEN "removed"
                   ELSE IF d.kind = "Modified" THEN "modified" ELSE "renamed",
     sign |-> "",
     hash |-> format_chunk_path_hash(d.old.path_hash),
     path |-> resolve_path(tbl, d.old.path_hash),
     new_path |-> IF d.kind = "Renamed" THEN resolve_path(tbl, d.new.path_hash) ELSE <<>>]

create_csv_records(tbl, ds) == [i \in 1..Len(ds) |-> CsvRecord(tbl, ds[i])]

\* records.sort_by(|a, b| a.path.cmp(&b.path)): a stable sort on path.
RECURSIVE InsertByPath(_, _)
InsertByPath(sorted, r) ==
    IF sorted = <<>> THEN <<r>>
    ELSE IF StrLess(r.path, Head(sorted).path) THEN <<r>> \o sorted
    ELSE <<Head(sorted)>> \o InsertByPath(Tail(sorted), r)

RECURSIVE SortByPath(_)
SortByPath(records) ==
    IF records = <<>> THEN <<>>
    ELSE InsertByPath(SortByPath(SubSeq(records, 1, Len(records) - 1)),
                      records[Len(records)])

write_diffs_to_csv(tbl, ds) == SortByPath(create_csv_records(tbl, ds))

EmptyWad == [h \in {} |-> 0]

IdleDiff ==
    /\ refWad = EmptyWad
    /\ tgtWad = EmptyWad
    /\ refOrder = <<>>
    /\ tgtOrder = <<>>
    /\ toCsv = FALSE
    /\ diffs = <<>>
    /\ dpc = "idle"
    /\ report = <<>>

\* diff() up to the mount of the two WADs: the hashtable is loaded, the two
\* chunk maps are mounted, each with some iteration order.
DiffMounted ==
    /\ \E src \in DiffSources :
          LET r == add_from_file(EmptyTable, src, <<>>)
          IN /\ items = r.items
             /\ loaded = r.log
             /\ lastCall = [op |-> "add_from_file", outcome |-> r.outcome,
                            malformed |-> HasMalformedLine(src), before |-> EmptyTable]
    /\ hstatus = "ready"
    /\ resolved = NoResolve
    /\ nloads = 1
    /\ refWad \in WadMaps
    /\ tgtWad \in WadMaps
    /\ refOrder \in Orderings(DOMAIN refWad)
    /\ tgtOrder \in Orderings(DOMAIN tgtWad)
    /\ toCsv \in BOOLEAN
    /\ diffs = <<>>
    /\ dpc = "collect"
    /\ report = <<>>

CollectDiffs ==
    /\ dpc = "collect"
    /\ diffs' = collect_diffs(refWad, tgtWad, refOrder, tgtOrder)
    /\ dpc' = "report"
    /\ UNCHANGED <<refWad, tgtWad, refOrder, tgtOrder, toCsv, report>>
    /\ UNCHANGED <<hashVars, extractVars, commandVars, appVars>>

PrintDiffs ==
    /\ dpc = "report"
    /\ ~toCsv
    /\ report' = print_diffs(items, diffs)
    /\ dpc' = "done"
    /\ UNCHANGED <<refWad, tgtWad, refOrder, tgtOrder, toCsv, diffs>>
    /\ UNCHANGED <<hashVars, extractVars, commandVars, appVars>>

WriteDiffsToCsv ==
    /\ dpc = "report"
    /\ toCsv
    /\ report' = write_diffs_to_csv(items, diffs)
    /\ dpc' = "done"
    /\ UNCHANGED <<refWad, tgtWad, refOrder, tgtOrder, toCsv, diffs>>
    /\ UNCHANGED <<hashVars, extractVars, commandVars, appVars>>

----------------------------------------------------------------------------
(* Extraction (extractor.rs) *)

MaxChunks == 3
\* The platform's limit on the length of a file name.
NameMax == 24
MAX_LOG_PATH_LEN == 120

None == [some |-> FALSE, val |-> <<>>]
NoPattern == [some |-> FALSE, val |-> [op |-> "", arg |-> <<>>]]
NoTypes == [some |-> FALSE, val |-> {}]
Some(v) == [some |-> TRUE, val |-> v]

\* truncate_middle(input, max_len)
truncate_middle(input, max_len) ==
    IF Len(input) <= max_len THEN input
    ELSE IF max_len <= 3 THEN <<".", ".", ".">>
    ELSE LET keep == max_len - 3
             left == keep \div 2
             right == keep - left
         IN SubSeq(input, 1, left) \o <<".", ".", ".">>
            \o SubSeq(input, Len(input) - right + 1, Len(input))

\* Utf8Path on relative paths with '/' separators.
LastIndexOf(s, c) ==
    IF \E i \in 1..Len(s) : s[i] = c
    THEN CHOOSE i \in 1..Len(s) : s[i] = c /\ \A j \in (i+1)..Len(s) : s[j] # c
    ELSE 0

PathFileName(p) == SubSeq(p, LastIndexOf(p, "/") + 1, Len(p))
PathParent(p) == SubSeq(p, 1, LastIndexOf(p, "/") - 1)

\* Path::extension: after the last '.', unless the name has none or only a leading one.
PathExtension(p) ==
    LET name == PathFileName(p)
        d == LastIndexOf(name, ".")
    IN IF d <= 1 THEN None ELSE Some(SubSeq(name, d + 1, Len(name)))

PathFileStem(p) ==
    LET name == PathFileName(p)
        d == LastIndexOf(name, ".")
    IN IF d <= 1 THEN name ELSE SubSeq(name, 1, d - 1)

PathSetFileName(p, name) ==
    IF LastIndexOf(p, "/") = 0 THEN name ELSE PathParent(p) \o <<"/">> \o name

PathSetExtension(p, ext) ==
    IF PathFileName(p) = <<>> THEN p
    ELSE PathSetFileName(p, PathFileStem(p) \o (IF ext = <<>> THEN <<>> ELSE <<".">> \o ext))

\* The path itself and every directory above it.
RECURSIVE PathAncestors(_)
PathAncestors(p) ==
    IF p = <<>> THEN {} ELSE {p} \cup PathAncestors(PathParent(p))

is_hex_chunk_path(path) ==
    LET file_name == PathFileName(path)
    IN Len(file_name) = 16 /\ \A i \in 1..Len(file_name) : ToDigit16(file_name[i]) >= 0

\* LeagueFileKind::identify_from_bytes and LeagueFileKind::extension, on the
\* sample contents.
identify_from_bytes(data) ==
    IF data = "png_bytes" THEN "Png" ELSE IF data = "dds_bytes" THEN "Dds" ELSE "Unknown"

KindExtension(kind) ==
    IF kind = "Png" THEN Some(<<"p", "n", "g">>)
    ELSE IF kind = "Dds" THEN Some(<<"d", "d", "s">>)
    ELSE None

build_ltk_name(file_stem, chunk_data) ==
    LET ext == KindExtension(identify_from_bytes(chunk_data))
    IN IF ext.some THEN file_stem \o <<".", "l", "t", "k", ".">> \o ext.val
       ELSE file_stem \o <<".", "l", "t", "k">>

resolve_final_chunk_path(dirs, chunk_path, chunk_data, chunk_kind) ==
    IF is_hex_chunk_path(chunk_path)
    THEN IF KindExtension(chunk_kind).some
         THEN PathSetExtension(chunk_path, KindExtension(chunk_kind).val)
         ELSE chunk_path
    ELSE LET has_extension == PathExtension(chunk_path).some
             collides_with_dir == chunk_path \in dirs
         IN IF ~has_extension \/ collides_with_dir
            THEN PathSetFileName(chunk_path,
                                 build_ltk_name(PathFileStem(chunk_path), chunk_data))
            ELSE chunk_path

\* fs::create_dir_all fails when a file stands where a directory is needed.
CreateDirAllFails(files, dir) == \E a \in PathAncestors(dir) : a \in DOMAIN files

\* fs::write: InvalidFilename for a name over the platform's limit, another
\* error when the path is a directory, success otherwise.
FsWrite(dirs, path) ==
    IF Len(PathFileName(path)) > NameMax THEN "invalid_filename"
    ELSE IF path \in dirs THEN "other_error"
    ELSE "ok"

FileWritten(files, path, data) ==
    [q \in DOMAIN files \cup {path} |-> IF q = path THEN data ELSE files[q]]

NoError == [what |-> "none", names_chunk |-> FALSE]

\* The write of write_long_filename_chunk, at hashed_path under the root.
WriteHashed(dirs, files, path_hash, chunk_data, hashed_path) ==
    IF FsWrite(dirs, hashed_path) = "ok"
    THEN [result |-> "true", dirs |-> dirs,
          files |-> FileWritten(files, hashed_path, chunk_data),
          events |-> <<[ev |-> "write", hash |-> path_hash, path |-> hashed_path,
                        via |-> "fallback"]>>,
          error |-> NoError]
    ELSE [result |-> "err", dirs |-> dirs, files |-> files, events |-> <<>>,
          error |-> [what |-> "long_filename_write", names_chunk |-> FALSE]]

\* Mutant: the fallback name without the kind's extension.
WriteLongFilenameNoExtension(dirs, files, path_hash, chunk_data, chunk_kind) ==
    WriteHashed(dirs, files, path_hash, chunk_data, format_chunk_path_hash(path_hash))

\* write_long_filename_chunk: the 16-digit hash, with the kind's extension.
write_long_filename_chunk(dirs, files, path_hash, chunk_data, chunk_kind) ==
    WriteHashed(dirs, files, path_hash, chunk_data,
                IF KindExtension(chunk_kind).some
                THEN PathSetExtension(format_chunk_path_hash(path_hash),
                                      KindExtension(chunk_kind).val)
                ELSE format_chunk_path_hash(path_hash))

\* Mutant: the kind filter with its test the wrong way round.
KindFilterInverted(filter_type, chunk_kind) ==
    filter_type.some /\ chunk_kind \in filter_type.val

\* filter_type.is_some_and(|filter| !filter.contains(&chunk_kind))
KindFilterSkips(filter_type, chunk_kind) ==
    filter_type.some /\ chunk_kind \notin filter_type.val

DecompressEvent(path_hash, chunk_path) ==
    <<[ev |-> "decompress", hash |-> path_hash, path |-> chunk_path]>>

\* extract_wad_chunk from fs::write on: w is the outcome of the write at final.
WriteOutcome(dirs, files, path_hash, chunk, chunk_kind, final, w) ==
    IF w = "ok"
    THEN [result |-> "true", dirs |-> dirs,
          files |-> FileWritten(files, final, chunk.data),
          events |-> <<[ev |-> "write", hash |-> path_hash, path |-> final,
                        via |-> "primary"]>>,
          error |-> NoError]
    ELSE IF w = "invalid_filename"
    THEN write_long_filename_chunk(dirs, files, path_hash, chunk.data, chunk_kind)
    ELSE [result |-> "err", dirs |-> dirs, files |-> files, events |-> <<>>,
          error |-> [what |-> "write", names_chunk |-> TRUE]]

\* extract_wad_chunk from the final path on: create_dir_all, then the write.
WriteChunk(dirs, files, path_hash, chunk, chunk_kind, final) ==
    IF CreateDirAllFails(files, PathParent(final))
    THEN [result |-> "err", dirs |-> dirs, files |-> files, events |-> <<>>,
          error |-> [what |-> "create_dir_all", names_chunk |-> FALSE]]
    ELSE WriteOutcome(dirs \cup PathAncestors(PathParent(final)), files, path_hash,
                      chunk, chunk_kind, final,
                      FsWrite(dirs \cup PathAncestors(PathParent(final)), final))

\* extract_wad_chunk after the chunk is decompressed and its kind identified.
ExtractDecompressed(dirs, files, path_hash, chunk, chunk_path, filter_type, chunk_kind) ==
    IF KindFilterSkips(filter_type, chunk_kind)
    THEN [result |-> "false", dirs |-> dirs, files |-> files, events |-> <<>>,
          error |-> NoError]
    ELSE WriteChunk(dirs, files, path_hash, chunk, chunk_kind,
                    resolve_final_chunk_path(dirs, chunk_path, chunk.data, chunk_kind))

WithDecompressEvent(r, path_hash, chunk_path) ==
    [r EXCEPT !.events = DecompressEvent(path_hash, chunk_path) \o r.events]

\* extract_wad_chunk: result is "true" (written), "false" (skipped by the kind
\* filter) or "err".
extract_wad_chunk(dirs, files, path_hash, chunk, chunk_path, filter_type) ==
    IF chunk.corrupt
    THEN [result |-> "err", dirs |-> dirs, files |-> files,
          events |-> DecompressEvent(path_hash, chunk_path),
          error |-> [what |-> "decompress", names_chunk |-> TRUE]]
    ELSE WithDecompressEvent(
             ExtractDecompressed(dirs, files, path_hash, chunk, chunk_path, filter_type,
                                 identify_from_bytes(chunk.data)),
             path_hash, chunk_path)

\* str::contains
Contains(s, sub) ==
    \E i \in 0..(Len(s) - Len(sub)) : SubSeq(s, i + 1, i + Len(sub)) = sub

LowerAlpha ==
    <<"a","b","c","d","e","f","g","h","i","j","k","l","m",
      "n","o","p","q","r","s","t","u","v","w","x","y","z">>
UpperAlpha ==
    <<"A","B","C","D","E","F","G","H","I","J","K","L","M",
      "N","O","P","Q","R","S","T","U","V","W","X","Y","Z">>

\* The characters a literal c of a pattern matches: both cases of a letter
\* when the case-insensitive flag is on.
Literal(c, ci) ==
    IF ~ci THEN {c}
    ELSE IF \E k \in 1..Len(LowerAlpha) : LowerAlpha[k] = c
    THEN {c, UpperAlpha[CHOOSE k \in 1..Len(LowerAlpha) : LowerAlpha[k] = c]}
    ELSE IF \E k \in 1..Len(UpperAlpha) : UpperAlpha[k] = c
    THEN {c, LowerAlpha[CHOOSE k \in 1..Len(UpperAlpha) : UpperAlpha[k] = c]}
    ELSE {c}

\* The first index from i on at which p has a character of cs, or 0.
FirstOf(p, i, cs) ==
    IF \E j \in i..Len(p) : p[j] \in cs
    THEN CHOOSE j \in i..Len(p) : p[j] \in cs /\ \A k \in i..(j - 1) : p[k] \notin cs
    ELSE 0

\* The flags of a group "(?flags)" or "(?flags:": letters, and '-' to negate
\* the ones after it.
FlagChars == {"i", "s", "m", "x", "u", "-"}
FlagsValid(f) == \A k \in 1..Len(f) : f[k] \in FlagChars
FlagsSetCase(f) == \E k \in 1..Len(f) : f[k] = "i"
FlagsCase(f, ci) ==
    IF ~FlagsSetCase(f) THEN ci
    ELSE LET k == CHOOSE j \in 1..Len(f) :
                      f[j] = "i" /\ \A m \in (j + 1)..Len(f) : f[m] # "i"
         IN ~(\E j \in 1..(k - 1) : f[j] = "-")

\* The state of the pattern parser: the case flag in force, the flags saved
\* at each open group, the one-character atoms read and the anchors;
\* declares says that a flag group set or cleared the case flag.
ParseStart ==
    [ok |-> TRUE, ci |-> FALSE, stack |-> <<>>, atoms |-> <<>>,
     start |-> FALSE, end |-> FALSE, declares |-> FALSE]
ParseBad(st) == [st EXCEPT !.ok = FALSE]
ParseAtom(st, chars) == [st EXCEPT !.atoms = Append(st.atoms, chars)]
ParsePush(st, ci) == [st EXCEPT !.stack = <<st.ci>> \o st.stack, !.ci = ci]
ParsePop(st) == [st EXCEPT !.stack = Tail(st.stack), !.ci = Head(st.stack)]

\* A flag group opening at index i and ending (at ')' or ':') at index e.
ParseFlagGroup(p, i, e, st) ==
    IF e = 0 \/ ~FlagsValid(SubSeq(p, i + 2, e - 1)) THEN ParseBad(st)
    ELSE IF p[e] = ")"
    THEN IF e = i + 2 THEN ParseBad(st)
         ELSE [st EXCEPT !.ci = FlagsCase(SubSeq(p, i + 2, e - 1), st.ci),
                         !.declares = st.declares \/ FlagsSetCase(SubSeq(p, i + 2, e - 1))]
    ELSE [ParsePush(st, FlagsCase(SubSeq(p, i + 2, e - 1), st.ci))
             EXCEPT !.declares = st.declares \/ FlagsSetCase(SubSeq(p, i + 2, e - 1))]

\* The parser of Regex::new on the patterns the model uses: literals,
\* escaped literals, classes, groups, flag groups and the anchors ^ and $.
\* A pattern with an unclosed class or unbalanced parentheses is rejected.
RECURSIVE ParseRegex(_, _, _)
ParseRegex(p, i, st) ==
    IF ~st.ok THEN st
    ELSE IF i > Len(p) THEN [st EXCEPT !.ok = (st.stack = <<>>)]
    ELSE IF p[i] = "\\"
    THEN IF i = Len(p) THEN ParseBad(st)
         ELSE ParseRegex(p, i + 2, ParseAtom(st, Literal(p[i + 1], st.ci)))
    ELSE IF p[i] = "["
    THEN IF FirstOf(p, i + 1, {"]"}) = 0 THEN ParseBad(st)
         ELSE ParseRegex(p, FirstOf(p, i + 1, {"]"}) + 1,
                         ParseAtom(st, UNION {Literal(p[k], st.ci) :
                                                k \in (i + 1)..(FirstOf(p, i + 1, {"]"}) - 1)}))
    ELSE IF p[i] = "("
    THEN IF i < Len(p) /\ p[i + 1] = "?"
         THEN ParseRegex(p, FirstOf(p, i + 2, {")", ":"}) + 1,
                         ParseFlagGroup(p, i, FirstOf(p, i + 2, {")", ":"}), st))
         ELSE ParseRegex(p, i + 1, ParsePush(st, st.ci))
    ELSE IF p[i] = ")"
    THEN IF st.stack = <<>> THEN ParseBad(st) ELSE ParseRegex(p, i + 1, ParsePop(st))
    ELSE IF p[i] = "^"
    THEN ParseRegex(p, i + 1, IF st.atoms = <<>> THEN [st EXCEPT !.start = TRUE]
                              ELSE ParseAtom(st, {}))
    ELSE IF p[i] = "$"
    THEN ParseRegex(p, i + 1, IF i = Len(p) THEN [st EXCEPT !.end = TRUE]
                              ELSE ParseAtom(st, {}))
    ELSE ParseRegex(p, i + 1, ParseAtom(st, Literal(p[i], st.ci)))

\* Regex::new(p): the compiled pattern, which keeps its source text, or an error.
RegexNew(p) ==
    LET st == ParseRegex(p, 1, ParseStart)
    IN [ok |-> st.ok,
        regex |-> [op |-> "atoms",
                   arg |-> [atoms |-> st.atoms, start |-> st.start, end |-> st.end],
                   src |-> p]]

\* An unanchored search for the atoms in text.
AtomsMatch(rx, text) ==
    \E off \in 0..(Len(text) - Len(rx.atoms)) :
        /\ rx.start => off = 0
        /\ rx.end => off + Len(rx.atoms) = Len(text)
        /\ \A k \in 1..Len(rx.atoms) : text[off + k] \in rx.atoms[k]

\* Regex::is_match on the sample patterns: "match", "nomatch" or "error" (the
\* engine gave up, e.g. on its backtrack limit).
RegexIsMatch(regex, text) ==
    IF regex.op = "atoms"
    THEN IF AtomsMatch(regex.arg, text) THEN "match" ELSE "nomatch"
    ELSE IF regex.op = "ends_with"
    THEN IF Len(text) >= Len(regex.arg)
            /\ SubSeq(text, Len(text) - Len(regex.arg) + 1, Len(text)) = regex.arg
         THEN "match" ELSE "nomatch"
    ELSE IF regex.op = "starts_with"
    THEN IF Len(text) >= Len(regex.arg) /\ SubSeq(text, 1, Len(regex.arg)) = regex.arg
         THEN "match" ELSE "nomatch"
    ELSE "error"

\* filter_pattern is set and !regex.is_match(path).unwrap_or(false)
PatternSkips(filter_pattern, chunk_path_str) ==
    filter_pattern.some /\ RegexIsMatch(filter_pattern.val, chunk_path_str) # "match"

\* Mutant: a chunk the kind filter skipped is counted too.
AfterExtractCountsSkipped(r, progress) ==
    IF r.result = "err"
    THEN [status |-> "err", i |-> xI, count |-> xCount, dirs |-> r.dirs,
          files |-> r.files, events |-> progress \o r.events, error |-> r.error]
    ELSE [status |-> "running", i |-> xI + 1, count |-> xCount + 1,
          dirs |-> r.dirs, files |-> r.files,
          events |-> progress \o r.events, error |-> NoError]

\* Mutant: a chunk that failed is skipped and the loop goes on.
AfterExtractSkipsFailure(r, progress) ==
    [status |-> "running", i |-> xI + 1,
     count |-> IF r.result = "true" THEN xCount + 1 ELSE xCount,
     dirs |-> r.dirs, files |-> r.files,
     events |-> progress \o r.events, error |-> NoError]

\* The loop of extract_wad_chunks after extract_wad_chunk returned r.
AfterExtract(r, progress) ==
    IF r.result = "err"
    THEN [status |-> "err", i |-> xI, count |-> xCount, dirs |-> r.dirs,
          files |-> r.files, events |-> progress \o r.events, error |-> r.error]
    ELSE [status |-> "running", i |-> xI + 1,
          count |-> IF r.result = "true" THEN xCount + 1 ELSE xCount,
          dirs |-> r.dirs, files |-> r.files,
          events |-> progress \o r.events, error |-> NoError]

ProgressEvent(path_hash, chunk_path_str) ==
    <<[ev |-> "progress", hash |-> path_hash,
       path |-> truncate_middle(chunk_path_str, MAX_LOG_PATH_LEN),
       i |-> xI, n |-> Cardinality(DOMAIN xChunks)]>>

\* Mutant: a chunk the regex skips does not advance i.
LoopIterationSkipKeepsI(path_hash, chunk_path_str) ==
    IF PatternSkips(xPattern, chunk_path_str)
    THEN [status |-> "running", i |-> xI, count |-> xCount, dirs |-> xDirs,
          files |-> xFiles, events |-> ProgressEvent(path_hash, chunk_path_str),
          error |-> NoError]
    ELSE AfterExtract(extract_wad_chunk(xDirs, xFiles, path_hash, xChunks[path_hash],
                                        chunk_path_str, xTypes),
                      ProgressEvent(path_hash, chunk_path_str))

\* One iteration of the loop of extract_wad_chunks, for the chunk at
\* path_hash, whose resolved path is chunk_path_str.
LoopIteration(path_hash, chunk_path_str) ==
    IF PatternSkips(xPattern, chunk_path_str)
    THEN [status |-> "running", i |-> xI + 1, count |-> xCount, dirs |-> xDirs,
          files |-> xFiles, events |-> ProgressEvent(path_hash, chunk_path_str),
          error |-> NoError]
    ELSE AfterExtract(extract_wad_chunk(xDirs, xFiles, path_hash, xChunks[path_hash],
                                        chunk_path_str, xTypes),
                      ProgressEvent(path_hash, chunk_path_str))

LoopBody(path_hash) == LoopIteration(path_hash, resolve_path(items, path_hash))

\* Sample container, hashtable and destination.
LongName == [i \in 1..(MAX_LOG_PATH_LEN + 10) |-> "a"]
PathSkin == PathChars \o <<"/","s","k","i","n",".","d","d","s">>
PathUnderIcon == PathIcon \o <<"/","x",".","p","n","g">>
PathLtk == PathChars \o <<".","l","t","k">>
PathHexNamed ==
    <<"d","a","t","a","/","0","1","2","3","4","5","6","7","8","9","a","b","c","d","e","f">>
ExtractSource ==
    << LIcon, LUpper,
       TextLine(Zeros(14) \o <<"1","0"," ">> \o PathSkin),
       TextLine(Zeros(14) \o <<"1","1"," ">> \o <<"A","/">> \o LongName \o <<".","p","n","g">>),
       TextLine(Zeros(14) \o <<"1","2"," ">> \o PathUnderIcon),
       TextLine(Zeros(14) \o <<"1","3"," ">> \o PathHexNamed),
       TextLine(Zeros(14) \o <<"1","4"," ">> \o PathLtk) >>

ChunkPool ==
    [h \in { <<0,0,0,1>>, <<0,0,0,43981>>, <<0,0,0,16>>, <<0,0,0,17>>, <<0,0,0,18>>,
             <<0,0,0,19>>, <<0,0,0,20>>, <<0,0,0,2>>, <<0,0,0,3>> } |->
        IF h = <<0,0,0,1>> THEN [data |-> "png_bytes", corrupt |-> FALSE]
        ELSE IF h = <<0,0,0,43981>> THEN [data |-> "raw_bytes", corrupt |-> FALSE]
        ELSE IF h = <<0,0,0,16>> THEN [data |-> "dds_bytes", corrupt |-> FALSE]
        ELSE IF h = <<0,0,0,17>> THEN [data |-> "png_bytes", corrupt |-> FALSE]
        ELSE IF h = <<0,0,0,18>> THEN [data |-> "dds_bytes", corrupt |-> FALSE]
        ELSE IF h = <<0,0,0,19>> THEN [data |-> "dds_bytes", corrupt |-> FALSE]
        ELSE IF h = <<0,0,0,20>> THEN [data |-> "dds_bytes", corrupt |-> FALSE]
        ELSE IF h = <<0,0,0,2>> THEN [data |-> "dds_bytes", corrupt |-> FALSE]
        ELSE [data |-> "raw_bytes", corrupt |-> TRUE]]

SamplePatterns ==
    { NoPattern,
      Some([op |-> "ends_with", arg |-> <<".","p","n","g">>]),
      Some([op |-> "starts_with", arg |-> <<"d","a","t","a","/">>]),
      Some([op |-> "gives_up", arg |-> <<>>]) }

SampleTypes == { NoTypes, Some({}), Some({"Png"}), Some({"Dds", "Unknown"}) }

SampleDirTrees ==
    { {}, {<<"d","a","t","a">>, PathChars},
      {Zeros(15) \o <<"2",".","d","d","s">>, Zeros(14) \o <<"1","1",".","p","n","g">>} }

EmptyFiles == [q \in {} |-> ""]

IdleList ==
    /\ lChunks = [h \in {} |-> [compressed_size |-> 0, uncompressed_size |-> 0]]
    /\ lRemaining = {}
    /\ lPattern = NoPattern
    /\ lTypes = NoTypes
    /\ lInfo = <<>>
    /\ lTotals = [compressed |-> 0, uncompressed |-> 0]
    /\ lOverall = [num |-> 0, den |-> 1]
    /\ lPc = "idle"

IdleSwap ==
    /\ sChampion = <<>>
    /\ sFrom = 0
    /\ sTo = 0
    /\ sPath = <<>>
    /\ sResult = [some |-> FALSE, val |-> <<>>]
    /\ sPc = "idle"

IdleOrders ==
    /\ dRun = 1
    /\ dFirst = <<>>

IdlePatcher ==
    /\ pStop = FALSE
    /\ pHandle = 0
    /\ pConfig = FALSE
    /\ pThreads = <<>>
    /\ pCalls = <<>>
    /\ pLeague = FALSE

IdleSkin ==
    /\ kToken = 0
    /\ kChild = 0
    /\ kCancelled = {}
    /\ kChildren = <<>>
    /\ kCalls = <<>>

IdleApp == IdleList /\ IdleSwap /\ IdleOrders /\ IdlePatcher /\ IdleSkin

IdleCommand ==
    /\ cArgs = [hashtable |-> [some |-> FALSE, val |-> Unopenable], hashtable_dir |-> <<>>,
                pattern |-> None, output |-> {}]
    /\ cPc = "idle"
    /\ cCause = "none"

IdleExtract ==
    /\ xChunks = [h \in {} |-> [data |-> "", corrupt |-> FALSE]]
    /\ xRemaining = {}
    /\ xPattern = NoPattern
    /\ xTypes = NoTypes
    /\ xDirs = {}
    /\ xFiles = EmptyFiles
    /\ xI = 0
    /\ xCount = 0
    /\ xStatus = "idle"
    /\ xError = NoError
    /\ xEvents = <<>>
    /\ xRun = 1
    /\ xFirst = EmptyFiles

\* extract_wad_chunks is entered: hashtable loaded, filters set, i = 0 and
\* extracted_count = 0.
InitExtract ==
    /\ LET r == add_from_file(EmptyTable, ExtractSource, <<>>)
       IN /\ items = r.items
          /\ loaded = r.log
          /\ lastCall = [op |-> "add_from_file", outcome |-> r.outcome,
                         malformed |-> FALSE, before |-> EmptyTable]
    /\ hstatus = "ready"
    /\ resolved = NoResolve
    /\ nloads = 1
    /\ IdleDiff
    /\ IdleCommand
    /\ IdleApp
    /\ \E D \in SUBSET DOMAIN ChunkPool :
          /\ Cardinality(D) <= MaxChunks
          /\ xChunks = [h \in D |-> ChunkPool[h]]
          /\ xRemaining = D
    /\ xPattern \in SamplePatterns
    /\ xTypes \in SampleTypes
    /\ xDirs \in SampleDirTrees
    /\ xFiles = EmptyFiles
    /\ xI = 0
    /\ xCount = 0
    /\ xStatus = "running"
    /\ xError = NoError
    /\ xEvents = <<>>
    /\ xRun = 1
    /\ xFirst = EmptyFiles

\* The state after one iteration of the loop, r, for the chunk at h.
Iterated(h, r) ==
    /\ xRemaining' = xRemaining \ {h}
    /\ xStatus' = r.status
    /\ xI' = r.i
    /\ xCount' = r.count
    /\ xDirs' = r.dirs
    /\ xFiles' = r.files
    /\ xEvents' = xEvents \o r.events
    /\ xError' = r.error

\* The loop takes the next chunk of chunks.values(), in the map's order.
ExtractChunk ==
    /\ xStatus = "running"
    /\ \E h \in xRemaining : Iterated(h, LoopBody(h))
    /\ UNCHANGED <<xChunks, xPattern, xTypes, xRun, xFirst>>
    /\ UNCHANGED <<hashVars, diffVars, commandVars, appVars>>

\* The loop is over: Ok(extracted_count).
ExtractReturn ==
    /\ xStatus = "running"
    /\ xRemaining = {}
    /\ xStatus' = "ok"
    /\ UNCHANGED <<xChunks, xRemaining, xPattern, xTypes, xDirs, xFiles, xI, xCount,
                   xError, xEvents, xRun, xFirst>>
    /\ UNCHANGED <<hashVars, diffVars, commandVars, appVars>>

----------------------------------------------------------------------------
(* The filter pattern (utils/mod.rs) and the extract command (commands/extract.rs) *)

FlagOn == <<"(", "?", "i", ")">>
FlagOff == <<"(", "?", "-", "i", ")">>

\* Mutant: a pattern that does not compile is dropped instead of reported.
CreateFilterPatternLenient(pattern) ==
    IF ~pattern.some THEN [ok |-> TRUE, val |-> NoPattern]
    ELSE LET has_inline_flag ==
                 Contains(pattern.val, FlagOn) \/ Contains(pattern.val, FlagOff)
             r == RegexNew(IF has_inline_flag THEN pattern.val ELSE FlagOn \o pattern.val)
         IN IF r.ok THEN [ok |-> TRUE, val |-> Some(r.regex)]
            ELSE [ok |-> TRUE, val |-> NoPattern]

\* create_filter_pattern: Ok(None), Ok(Some(regex)) or the error of Regex::new.
create_filter_pattern(pattern) ==
    IF ~pattern.some THEN [ok |-> TRUE, val |-> NoPattern]
    ELSE LET has_inline_flag ==
                 Contains(pattern.val, FlagOn) \/ Contains(pattern.val, FlagOff)
             r == RegexNew(IF has_inline_flag THEN pattern.val ELSE FlagOn \o pattern.val)
         IN IF r.ok THEN [ok |-> TRUE, val |-> Some(r.regex)]
            ELSE [ok |-> FALSE, val |-> NoPattern]

\* args.hashtable: no path, a file that opens, or one that does not.
NoHashtable == [some |-> FALSE, val |-> Unopenable]
NoPatternText == [some |-> FALSE, val |-> <<>>]

\* The hashtable of extract(): the files of the hashtable directory, then
\* args.hashtable.
LoadArgsHashtable(r, hashtable) ==
    IF r.outcome # "ok" \/ ~hashtable.some THEN r
    ELSE IF ~hashtable.val.openable THEN [r EXCEPT !.outcome = "err"]
    ELSE add_from_file(r.items, hashtable.val.lines, r.log)

LoadHashtables(args) ==
    LoadArgsHashtable(add_from_dir(EmptyTable, args.hashtable_dir, <<>>), args.hashtable)

\* Sample arguments.
PatPng == <<"\\", ".", "p", "n", "g", "$">>
PatData == FlagOff \o <<"^", "d", "a", "t", "a", "/">>
PatUnclosed == <<"(", "s", "k", "i", "n">>
PatClass == <<"[", "(", "?", "i", ")", "]", "c", "o", "n">>
PatScoped == <<"(", "?", "i", ":", "S", "K", "I", "N", ")", "\\", ".", "d", "d", "s">>
SamplePatternTexts ==
    { NoPatternText, Some(PatPng), Some(PatData), Some(PatUnclosed), Some(PatClass),
      Some(PatScoped) }
SampleHashtableArgs ==
    { NoHashtable, Some(DirFile(ExtractSource)), Some(DirFile(<<LIcon, LBadDigit>>)),
      Some(Unopenable) }
SampleHashtableDirs == { <<>>, <<DirFile(<<LIconB>>)>> }
CommandChunks == { <<0,0,0,1>>, <<0,0,0,16>>, <<0,0,0,3>> }
CommandDirTrees == { {}, {<<"d","a","t","a">>, PathChars} }
CommandTypes == { NoTypes, Some({"Png"}) }

\* extract() after wad.decode(): the container is mounted, nothing is loaded.
InitCommand ==
    /\ HashtableNew
    /\ IdleDiff
    /\ IdleApp
    /\ cArgs \in [hashtable : SampleHashtableArgs, hashtable_dir : SampleHashtableDirs,
                  pattern : SamplePatternTexts, output : CommandDirTrees]
    /\ cPc = "mounted"
    /\ cCause = "none"
    /\ \E D \in SUBSET CommandChunks :
          /\ xChunks = [h \in D |-> ChunkPool[h]]
          /\ xRemaining = D
    /\ xPattern = NoPattern
    /\ xTypes \in CommandTypes
    /\ xDirs = cArgs.output
    /\ xFiles = EmptyFiles
    /\ xI = 0
    /\ xCount = 0
    /\ xStatus = "idle"
    /\ xError = NoError
    /\ xEvents = <<>>
    /\ xRun = 1
    /\ xFirst = EmptyFiles

\* WadHashtable::new, add_from_dir and add_from_file.
CommandLoadHashtable ==
    /\ cPc = "mounted"
    /\ LET r == LoadHashtables(cArgs)
       IN /\ items' = r.items
          /\ loaded' = r.log
          /\ hstatus' = IF r.outcome = "panic" THEN "panicked" ELSE "ready"
          /\ lastCall' = [op |-> "extract", outcome |-> r.outcome,
                          malformed |-> FALSE, before |-> items]
          /\ cPc' = IF r.outcome = "ok" THEN "loaded"
                    ELSE IF r.outcome = "panic" THEN "panicked" ELSE "err"
          /\ cCause' = IF r.outcome = "ok" THEN "none" ELSE "hashtable"
    /\ nloads' = nloads + 1
    /\ UNCHANGED <<resolved, cArgs, diffVars, extractVars, appVars>>

\* create_filter_pattern(args.pattern)? and set_filter_pattern.
CommandCreateFilter ==
    /\ cPc = "loaded"
    /\ LET r == create_filter_pattern(cArgs.pattern)
       IN /\ xPattern' = r.val
          /\ cPc' = IF r.ok THEN "filter_set" ELSE "err"
          /\ cCause' = IF r.ok THEN "none" ELSE "pattern"
    /\ UNCHANGED <<xChunks, xRemaining, xTypes, xDirs, xFiles, xI, xCount, xStatus,
                   xError, xEvents, xRun, xFirst>>
    /\ UNCHANGED <<cArgs, hashVars, diffVars, appVars>>

\* extractor.extract_chunks(...) is called.
CommandExtractChunks ==
    /\ cPc = "filter_set"
    /\ cPc' = "extracting"
    /\ xStatus' = "running"
    /\ UNCHANGED <<xChunks, xRemaining, xPattern, xTypes, xDirs, xFiles, xI, xCount,
                   xError, xEvents, xRun, xFirst>>
    /\ UNCHANGED <<cArgs, cCause, hashVars, diffVars, appVars>>

\* extract_chunks returned: `?` passes its error on, Ok(()) otherwise.
CommandReturn ==
    /\ cPc = "extracting"
    /\ xStatus \in {"ok", "err"}
    /\ cPc' = xStatus
    /\ cCause' = IF xStatus = "err" THEN "extraction" ELSE "none"
    /\ UNCHANGED <<cArgs, hashVars, diffVars, extractVars, appVars>>

----------------------------------------------------------------------------
(* Two runs of extract_wad_chunks over one destination *)

\* The first run is entered over a clean destination.
InitTwice ==
    /\ InitExtract
    /\ xDirs = {}

\* The first run returned Ok; the same container is extracted again, with
\* the same hashtable and filters, into the destination as the first run
\* left it.
ExtractAgain ==
    /\ xRun = 1
    /\ xStatus = "ok"
    /\ xRun' = 2
    /\ xFirst' = xFiles
    /\ xRemaining' = DOMAIN xChunks
    /\ xI' = 0
    /\ xCount' = 0
    /\ xStatus' = "running"
    /\ xError' = NoError
    /\ xEvents' = <<>>
    /\ UNCHANGED <<xChunks, xPattern, xTypes, xDirs, xFiles>>
    /\ UNCHANGED <<hashVars, diffVars, commandVars, appVars>>

----------------------------------------------------------------------------
(* The list command (commands/list.rs) *)

\* Chunk sizes range over 0..MaxSize.
MaxSize == 2

\* Mutant: the share of the compressed size instead of the saving.
RatioOfCompressed(compressed, uncompressed) ==
    IF uncompressed > 0
    THEN [num |-> compressed * 100, den |-> uncompressed]
    ELSE [num |-> 0, den |-> 1]

\* (1.0 - (compressed as f64 / uncompressed as f64)) * 100.0, or 0.0 when
\* uncompressed is 0, as the fraction num / den with den > 0.
compression_ratio(compressed, uncompressed) ==
    IF uncompressed > 0
    THEN [num |-> (uncompressed - compressed) * 100, den |-> uncompressed]
    ELSE [num |-> 0, den |-> 1]

\* LeagueFileKind::from_extension(path.extension().unwrap_or("")), on the
\* sample extensions.
from_extension(ext) ==
    IF ~ext.some THEN "Unknown"
    ELSE IF ext.val = <<"p", "n", "g">> THEN "Png"
    ELSE IF ext.val = <<"d", "d", "s">> THEN "Dds"
    ELSE "Unknown"

\* if !filter_types.contains(&file_type) { continue; }
ListTypeSkips(filter_type, file_type) ==
    filter_type.some /\ file_type \notin filter_type.val

ChunkInfo(path_hash, path_str, file_type, chunk) ==
    [hash |-> format_chunk_path_hash(path_hash), path |-> path_str,
     file_type |-> file_type, compressed_size |-> chunk.compressed_size,
     uncompressed_size |-> chunk.uncompressed_size,
     compression_ratio |-> compression_ratio(chunk.compressed_size,
                                             chunk.uncompressed_size)]

\* One iteration of the loop of list over wad.chunks().values().
ListIteration(path_hash, path_str, chunk) ==
    IF PatternSkips(lPattern, path_str)
          \/ ListTypeSkips(lTypes, from_extension(PathExtension(path_str)))
    THEN [info |-> lInfo, totals |-> lTotals]
    ELSE [info |-> Append(lInfo, ChunkInfo(path_hash, path_str,
                                           from_extension(PathExtension(path_str)), chunk)),
          totals |-> [compressed |-> lTotals.compressed + chunk.compressed_size,
                      uncompressed |-> lTotals.uncompressed + chunk.uncompressed_size]]

ListHashes == { <<0,0,0,1>>, <<0,0,0,16>>, <<0,0,0,2>> }
ListPatterns == { NoPattern, Some([op |-> "starts_with", arg |-> <<"d","a","t","a","/">>]) }
ListTypes == { NoTypes, Some({"Png", "Unknown"}) }
ChunkSizes == [compressed_size : 0..MaxSize, uncompressed_size : 0..MaxSize]

\* list() before its loop: the container is mounted, the hashtable loaded,
\* the pattern compiled and the totals are 0.
InitList ==
    /\ LET r == add_from_file(EmptyTable, ExtractSource, <<>>)
       IN /\ items = r.items
          /\ loaded = r.log
          /\ lastCall = [op |-> "add_from_file", outcome |-> r.outcome,
                         malformed |-> FALSE, before |-> EmptyTable]
    /\ hstatus = "ready"
    /\ resolved = NoResolve
    /\ nloads = 1
    /\ IdleDiff
    /\ IdleExtract
    /\ IdleCommand
    /\ IdleSwap
    /\ IdleOrders
    /\ IdlePatcher
    /\ IdleSkin
    /\ \E D \in SUBSET ListHashes :
          /\ lChunks \in [D -> ChunkSizes]
          /\ lRemaining = D
    /\ lPattern \in ListPatterns
    /\ lTypes \in ListTypes
    /\ lInfo = <<>>
    /\ lTotals = [compressed |-> 0, uncompressed |-> 0]
    /\ lOverall = compression_ratio(0, 0)
    /\ lPc = "loop"

\* The loop takes the next chunk of wad.chunks().values(), in the map's order.
ListChunk ==
    /\ lPc = "loop"
    /\ \E h \in lRemaining :
          LET r == ListIteration(h, resolve_path(items, h), lChunks[h])
          IN /\ lInfo' = r.info
             /\ lTotals' = r.totals
             /\ lRemaining' = lRemaining \ {h}
    /\ UNCHANGED <<lChunks, lPattern, lTypes, lOverall, lPc>>
    /\ UNCHANGED <<hashVars, diffVars, extractVars, commandVars, swapVars, orderVars, patcherVars, skinVars>>

\* After the loop: the sort by path and the overall ratio of the totals.
ListFinish ==
    /\ lPc = "loop"
    /\ lRemaining = {}
    /\ lInfo' = SortByPath(lInfo)
    /\ lOverall' = compression_ratio(lTotals.compressed, lTotals.uncompressed)
    /\ lPc' = "done"
    /\ UNCHANGED <<lChunks, lRemaining, lPattern, lTypes, lTotals>>
    /\ UNCHANGED <<hashVars, diffVars, extractVars, commandVars, swapVars, orderVars, patcherVars, skinVars>>

----------------------------------------------------------------------------
(* Path remapping for skin swaps (ltk-swapper) *)

\* Skin ids range over 0..MaxSkin.
MaxSkin == 11

\* char::to_lowercase on the letters the model uses.
LowerChar(c) ==
    IF \E k \in 1..Len(UpperAlpha) : UpperAlpha[k] = c
    THEN LowerAlpha[CHOOSE k \in 1..Len(UpperAlpha) : UpperAlpha[k] = c]
    ELSE c

\* str::to_lowercase
to_lowercase(s) == [k \in 1..Len(s) |-> LowerChar(s[k])]

\* str::replace(char, &str) for a one-character replacement
ReplaceChar(s, from, to) == [k \in 1..Len(s) |-> IF s[k] = from THEN to ELSE s[k]]

\* str::replace(&str, &str): the non-overlapping matches of a non-empty
\* `from`, found from the left, are replaced by `to`.
RECURSIVE StrReplaceFrom(_, _, _, _)
StrReplaceFrom(s, from, to, i) ==
    IF i > Len(s) THEN <<>>
    ELSE IF i + Len(from) - 1 <= Len(s) /\ SubSeq(s, i, i + Len(from) - 1) = from
    THEN to \o StrReplaceFrom(s, from, to, i + Len(from))
    ELSE <<s[i]>> \o StrReplaceFrom(s, from, to, i + 1)

StrReplace(s, from, to) == StrReplaceFrom(s, from, to, 1)

DecDigits == <<"0","1","2","3","4","5","6","7","8","9">>

\* format!("{}", n)
RECURSIVE Decimal(_)
Decimal(n) ==
    IF n < 10 THEN <<DecDigits[n + 1]>>
    ELSE Decimal(n \div 10) \o <<DecDigits[(n % 10) + 1]>>

\* format!("skin{:02}", n): at least two digits, padded with zeros.
SkinIdStr(n) ==
    <<"s","k","i","n">> \o (IF n < 10 THEN <<"0">> ELSE <<>>) \o Decimal(n)

NoPath == [some |-> FALSE, val |-> <<>>]

\* Remapper::remap
remap(champion, from_skin, to_skin, path) ==
    LET path_lower == ReplaceChar(to_lowercase(path), "\\", "/")
        from_id_str == SkinIdStr(from_skin)
        to_folder_str == SkinIdStr(to_skin)
        to_filename_str == IF to_skin = 0 THEN <<"b","a","s","e">>
                           ELSE SkinIdStr(to_skin)
        new_path == StrReplace(path_lower,
                               <<"s","k","i","n","s","/">> \o from_id_str \o <<"/">>,
                               <<"s","k","i","n","s","/">> \o to_folder_str \o <<"/">>)
        champion_lower == to_lowercase(champion)
        final_path == StrReplace(new_path,
                                 champion_lower \o <<"_">> \o from_id_str,
                                 champion_lower \o <<"_">> \o to_filename_str)
    IN IF from_skin = to_skin THEN NoPath
       ELSE IF ~Contains(path_lower, from_id_str) THEN NoPath
       ELSE IF final_path # path_lower THEN Some(final_path)
       ELSE NoPath

Ahri == <<"A","h","r","i">>
CharsDir == <<"A","S","S","E","T","S","/","C","h","a","r","a","c","t","e","r","s","/">>
\* ASSETS/Characters/Ahri/Skins/Skin05/Ahri_Skin05.skn
PathSkn ==
    CharsDir \o Ahri \o <<"/","S","k","i","n","s","/","S","k","i","n","0","5","/">>
        \o Ahri \o <<"_","S","k","i","n","0","5",".","s","k","n">>
\* assets/characters/ahri/skins/skin05/ahri_skin05.skn
PathSknLower == to_lowercase(PathSkn)
\* ASSETS/Characters/Ahri/Skins/Skin05/Particles/Ahri_Skin05_Q_Orb.troy
PathParticles ==
    CharsDir \o Ahri \o <<"/","S","k","i","n","s","/","S","k","i","n","0","5","/",
                          "P","a","r","t","i","c","l","e","s","/">>
        \o Ahri \o <<"_","S","k","i","n","0","5","_","Q","_","O","r","b",".","t","r","o","y">>
\* ASSETS\Characters\Ahri\Skins\Skin05\Ahri_Skin05.skn
PathBackslash == ReplaceChar(PathSkn, "/", "\\")
\* ASSETS/Characters/Ahri/Skins/Skin11/Ahri_Skin11.skn
PathSkin11 ==
    CharsDir \o Ahri \o <<"/","S","k","i","n","s","/","S","k","i","n","1","1","/">>
        \o Ahri \o <<"_","S","k","i","n","1","1",".","s","k","n">>
\* ASSETS/Characters/Ahri/Skins/Base/Ahri.skn
PathBase ==
    CharsDir \o Ahri \o <<"/","S","k","i","n","s","/","B","a","s","e","/">>
        \o Ahri \o <<".","s","k","n">>

SwapChampions == { Ahri, to_lowercase(Ahri), <<"L","u","x">> }
SwapPaths == { PathSkn, PathSknLower, PathParticles, PathBackslash, PathSkin11, PathBase }

\* A caller is about to call remap_path with arguments of its choice.
InitSwap ==
    /\ HashtableNew
    /\ IdleDiff
    /\ IdleExtract
    /\ IdleCommand
    /\ IdleList
    /\ IdleOrders
    /\ IdlePatcher
    /\ IdleSkin
    /\ sChampion \in SwapChampions
    /\ sFrom \in 0..MaxSkin
    /\ sTo \in 0..MaxSkin
    /\ sPath \in SwapPaths
    /\ sResult = NoPath
    /\ sPc = "call"

\* SwapEngine::remap_path, which hands its arguments to Remapper::remap.
RemapPath ==
    /\ sPc = "call"
    /\ sResult' = remap(sChampion, sFrom, sTo, sPath)
    /\ sPc' = "returned"
    /\ UNCHANGED <<sChampion, sFrom, sTo, sPath>>
    /\ UNCHANGED <<hashVars, diffVars, extractVars, commandVars, listVars, orderVars, patcherVars, skinVars>>

----------------------------------------------------------------------------
(* Two runs of the chunk diff over the same two containers *)

\* The chunk directories of the two containers diff is run on twice.
OrderHashes == { <<0, 0, 0, 1>>, <<0, 0, 0, 2>>, <<0, 0, 0, 3>> }
OrderWadMaps == UNION {[D -> Checksums] : D \in SUBSET OrderHashes}

\* diff() up to the mount of the two containers, for the first of two runs.
InitOrders ==
    /\ items = EmptyTable
    /\ loaded = <<>>
    /\ lastCall = [op |-> "add_from_file", outcome |-> "ok",
                   malformed |-> FALSE, before |-> EmptyTable]
    /\ hstatus = "ready"
    /\ resolved = NoResolve
    /\ nloads = 1
    /\ refWad \in OrderWadMaps
    /\ tgtWad \in OrderWadMaps
    /\ refOrder \in Orderings(DOMAIN refWad)
    /\ tgtOrder \in Orderings(DOMAIN tgtWad)
    /\ toCsv = FALSE
    /\ diffs = <<>>
    /\ dpc = "collect"
    /\ report = <<>>
    /\ dRun = 1
    /\ dFirst = <<>>
    /\ IdleExtract
    /\ IdleCommand
    /\ IdleList
    /\ IdleSwap
    /\ IdlePatcher
    /\ IdleSkin

\* diff() is run again on the same two files: the two chunk maps are built
\* anew, with iteration orders of their own, and collect_diffs is called.
CollectAgain ==
    /\ dRun = 1
    /\ dpc = "report"
    /\ dRun' = 2
    /\ dFirst' = diffs
    /\ \E ro \in Orderings(DOMAIN refWad), to \in Orderings(DOMAIN tgtWad) :
          /\ refOrder' = ro
          /\ tgtOrder' = to
          /\ diffs' = collect_diffs(refWad, tgtWad, ro, to)
    /\ UNCHANGED <<refWad, tgtWad, toCsv, report, dpc>>
    /\ UNCHANGED <<hashVars, extractVars, commandVars, listVars, swapVars, patcherVars, skinVars>>

----------------------------------------------------------------------------
(* The patcher thread and its start / stop commands (commands/patcher.rs) *)

\* Number of start_patcher / stop_patcher calls a behaviour makes.
MaxCalls == 3
\* The timeouts a configuration carries allow up to MaxSteps hook steps.
MaxSteps == 2
HOOK_STEP_MS == 100

Timeouts == {0} \cup {HOOK_STEP_MS * k : k \in 1..MaxSteps}
                \cup {HOOK_STEP_MS * k - 50 : k \in 1..MaxSteps}
\* What api.find() and api.hook_begin() can return.
LeagueTids == {7}
HookHandles == {0, 5}

NoThread ==
    [pc |-> "unborn", timeout |-> 0, time_remaining |-> 0, tid |-> 0, hook |-> 0,
     continues |-> 0, ends |-> <<>>, late |-> FALSE, result |-> ""]
NoPatcherCall == [op |-> "none", pc |-> "idle", result |-> "", handle |-> 0]

\* The thread thread::spawn creates: run_patcher_loop is about to start.
Spawned(timeout_ms) == [NoThread EXCEPT !.pc = "init", !.timeout = timeout_ms]

Exited(th, result) == [th EXCEPT !.pc = "exited", !.result = result]

\* JoinHandle::is_finished of the thread with handle h.
is_finished(h) == pThreads[h].pc = "exited"

\* PatcherStateInner::is_running
is_running == pHandle # 0 /\ ~is_finished(pHandle)

\* api.hook_end(tid, hook)
hook_end(th) == [th EXCEPT !.ends = Append(@, <<th.tid, th.hook>>)]

\* api.hook_continue(tid, hook)
hook_continue(th) ==
    [th EXCEPT !.continues = @ + 1, !.late = @ \/ th.ends # <<>>]

\* Mutant: the timeout exit that leaves the hook session open.
HookStepTimeoutNoEnd(th, stop, applied) ==
    IF stop THEN Exited(hook_end(th), "Stopped")
    ELSE IF th.time_remaining <= 0 THEN Exited(th, "HookTimeout")
    ELSE IF applied THEN Exited(hook_end(hook_continue(th)), "Ok")
    ELSE [hook_continue(th) EXCEPT !.time_remaining = @ - HOOK_STEP_MS]

\* One iteration of the second loop of run_patcher_loop: `stop` is what
\* stop_flag.load returns, `applied` whether hook_count() has changed.
hook_step(th, stop, applied) ==
    IF stop THEN Exited(hook_end(th), "Stopped")
    ELSE IF th.time_remaining <= 0 THEN Exited(hook_end(th), "HookTimeout")
    ELSE IF applied THEN Exited(hook_end(hook_continue(th)), "Ok")
    ELSE [hook_continue(th) EXCEPT !.time_remaining = @ - HOOK_STEP_MS]

CallIds == 1..MaxCalls


\* PatcherState::new(), with no command called yet and the game not running.
InitPatcher ==
    /\ HashtableNew
    /\ IdleDiff
    /\ IdleExtract
    /\ IdleCommand
    /\ IdleList
    /\ IdleSwap
    /\ IdleOrders
    /\ IdleSkin
    /\ pStop = FALSE
    /\ pHandle = 0
    /\ pConfig = FALSE
    /\ pThreads = [c \in CallIds |-> NoThread]
    /\ pCalls = [c \in CallIds |-> NoPatcherCall]
    /\ pLeague = FALSE

Return(c, op, result) ==
    pCalls' = [pCalls EXCEPT ![c] = [op |-> op, pc |-> "returned",
                                     result |-> result, handle |-> 0]]

\* start_patcher_inner, which runs under the state's lock from its first
\* line to its return.
StartPatcher(c) ==
    /\ pCalls[c].pc = "idle"
    /\ pCalls[c].op = "none"
    /\ IF is_running
       THEN /\ Return(c, "start", "Patcher is already running")
            /\ UNCHANGED <<pStop, pHandle, pConfig, pThreads>>
       ELSE \/ /\ Return(c, "start", "Patcher DLL not found")
               /\ UNCHANGED <<pStop, pHandle, pConfig, pThreads>>
            \/ /\ pStop' = FALSE
               /\ \E timeout_ms \in Timeouts :
                     pThreads' = [pThreads EXCEPT ![c] = Spawned(timeout_ms)]
               /\ pHandle' = c
               /\ pConfig' = TRUE
               /\ Return(c, "start", "Ok")
    /\ UNCHANGED pLeague
    /\ UNCHANGED <<hashVars, diffVars, extractVars, commandVars, listVars, swapVars, orderVars, skinVars>>

\* stop_patcher_inner up to handle.join(): the check, the store to the
\* flag and the take of the handle happen under the lock, which is dropped
\* before the join.
StopPatcher(c) ==
    /\ pCalls[c].pc = "idle"
    /\ pCalls[c].op = "none"
    /\ IF ~is_running
       THEN /\ Return(c, "stop", "Patcher is not running")
            /\ UNCHANGED <<pStop, pHandle>>
       ELSE /\ pStop' = TRUE
            /\ pHandle' = 0
            /\ pCalls' = [pCalls EXCEPT ![c] = [op |-> "stop", pc |-> "join",
                                                result |-> "", handle |-> pHandle]]
    /\ UNCHANGED <<pConfig, pThreads, pLeague>>
    /\ UNCHANGED <<hashVars, diffVars, extractVars, commandVars, listVars, swapVars, orderVars, skinVars>>

\* handle.join() returns once the thread has exited.
StopJoin(c) ==
    /\ pCalls[c].pc = "join"
    /\ is_finished(pCalls[c].handle)
    /\ pCalls' = [pCalls EXCEPT ![c].pc = "relock"]
    /\ UNCHANGED <<pStop, pHandle, pConfig, pThreads, pLeague>>
    /\ UNCHANGED <<hashVars, diffVars, extractVars, commandVars, listVars, swapVars, orderVars, skinVars>>

\* The end of stop_patcher_inner: the lock is taken again and config_path
\* cleared.
StopReturn(c) ==
    /\ pCalls[c].pc = "relock"
    /\ pConfig' = FALSE
    /\ pCalls' = [pCalls EXCEPT ![c].pc = "returned", ![c].result = "Ok"]
    /\ UNCHANGED <<pStop, pHandle, pThreads, pLeague>>
    /\ UNCHANGED <<hashVars, diffVars, extractVars, commandVars, listVars, swapVars, orderVars, skinVars>>

\* run_patcher_loop before its first loop: the DLL is loaded and
\* configured, and each of these calls can fail.
ThreadInit(t) ==
    /\ pThreads[t].pc = "init"
    /\ \/ pThreads' = [pThreads EXCEPT ![t] = Exited(@, "Patcher")]
       \/ pThreads' = [pThreads EXCEPT ![t].pc = "find"]
    /\ UNCHANGED <<pStop, pHandle, pConfig, pCalls, pLeague>>
    /\ UNCHANGED <<hashVars, diffVars, extractVars, commandVars, listVars, swapVars, orderVars, skinVars>>

\* One iteration of the first loop: the flag is read, then api.find()
\* either finds the game's thread or the loop sleeps and starts over.
ThreadFind(t) ==
    /\ pThreads[t].pc = "find"
    /\ IF pStop
       THEN pThreads' = [pThreads EXCEPT ![t] = Exited(@, "Stopped")]
       ELSE IF pLeague
       THEN \E tid \in LeagueTids :
               pThreads' = [pThreads EXCEPT ![t].pc = "begin", ![t].tid = tid]
       ELSE UNCHANGED pThreads
    /\ UNCHANGED <<pStop, pHandle, pConfig, pCalls, pLeague>>
    /\ UNCHANGED <<hashVars, diffVars, extractVars, commandVars, listVars, swapVars, orderVars, skinVars>>

\* hook_count(), hook_begin(tid) and the test of the handle it returns.
ThreadHookBegin(t) ==
    /\ pThreads[t].pc = "begin"
    /\ \E hook \in HookHandles :
          IF hook = 0
          THEN pThreads' = [pThreads EXCEPT ![t] = Exited(@, "HookFailed")]
          ELSE pThreads' = [pThreads EXCEPT ![t].pc = "hooked", ![t].hook = hook,
                                            ![t].time_remaining = pThreads[t].timeout]
    /\ UNCHANGED <<pStop, pHandle, pConfig, pCalls, pLeague>>
    /\ UNCHANGED <<hashVars, diffVars, extractVars, commandVars, listVars, swapVars, orderVars, skinVars>>

\* One iteration of the second loop.
ThreadHookStep(t) ==
    /\ pThreads[t].pc = "hooked"
    /\ \E applied \in BOOLEAN :
          pThreads' = [pThreads EXCEPT ![t] = hook_step(@, pStop, applied)]
    /\ UNCHANGED <<pStop, pHandle, pConfig, pCalls, pLeague>>
    /\ UNCHANGED <<hashVars, diffVars, extractVars, commandVars, listVars, swapVars, orderVars, skinVars>>

\* The user starts the game.
\* PatcherState::new() for the behaviours that follow the hook session of
\* a thread: two start_patcher calls and a stop_patcher call.
HookCalls == 1..3

InitHook ==
    /\ HashtableNew
    /\ IdleDiff
    /\ IdleExtract
    /\ IdleCommand
    /\ IdleList
    /\ IdleSwap
    /\ IdleOrders
    /\ IdleSkin
    /\ pStop = FALSE
    /\ pHandle = 0
    /\ pConfig = FALSE
    /\ pThreads = [c \in HookCalls |-> NoThread]
    /\ pCalls = [c \in HookCalls |-> NoPatcherCall]
    /\ pLeague = FALSE

LeagueStart ==
    /\ ~pLeague
    /\ pLeague' = TRUE
    /\ UNCHANGED <<pStop, pHandle, pConfig, pThreads, pCalls>>
    /\ UNCHANGED <<hashVars, diffVars, extractVars, commandVars, listVars, swapVars, orderVars, skinVars>>

ThreadStep(t) ==
    ThreadInit(t) \/ ThreadFind(t) \/ ThreadHookBegin(t) \/ ThreadHookStep(t)

----------------------------------------------------------------------------
(* run_skin and stop_all_mods (commands/mod_skin.rs) *)

\* Number of run_skin / stop_all_mods calls a behaviour makes.
MaxSkinCalls == 3
SkinCalls == 1..MaxSkinCalls

NoSkinCall == [op |-> "none", pc |-> "idle", child |-> 0, result |-> ""]

\* PatcherState::new(), with no command called yet.  A run_skin call's
\* cancel token and the child it spawns carry the number of the call.
InitSkin ==
    /\ HashtableNew
    /\ IdleDiff
    /\ IdleExtract
    /\ IdleCommand
    /\ IdleList
    /\ IdleSwap
    /\ IdleOrders
    /\ IdlePatcher
    /\ kToken = 0
    /\ kChild = 0
    /\ kCancelled = {}
    /\ kChildren = [c \in SkinCalls |-> "none"]
    /\ kCalls = [c \in SkinCalls |-> NoSkinCall]

\* The first locked block of run_skin and of stop_all_mods: the stored
\* token is taken and cancelled, the stored child is taken.
TakeTokenAndChild ==
    /\ kCancelled' = IF kToken # 0 THEN kCancelled \cup {kToken} ELSE kCancelled
    /\ kToken' = 0
    /\ kChild' = 0

SkinReturn(c, result) ==
    kCalls' = [kCalls EXCEPT ![c].pc = "returned", ![c].result = result, ![c].child = 0]

\* child.start_kill() of the child the call holds
KillHeld(c) == kChildren' = [kChildren EXCEPT ![kCalls[c].child] = "killed"]

RunSkinTake(c) ==
    /\ kCalls[c] = NoSkinCall
    /\ TakeTokenAndChild
    /\ kCalls' = [kCalls EXCEPT ![c] = [op |-> "run_skin",
                                        pc |-> IF kChild # 0 THEN "kill" ELSE "token",
                                        child |-> kChild, result |-> ""]]
    /\ UNCHANGED kChildren
    /\ UNCHANGED <<hashVars, diffVars, extractVars, commandVars, listVars, swapVars, orderVars, patcherVars>>

\* start_kill() and wait() of the child taken from the state.
RunSkinKill(c) ==
    /\ kCalls[c].op = "run_skin"
    /\ kCalls[c].pc = "kill"
    /\ KillHeld(c)
    /\ kCalls' = [kCalls EXCEPT ![c].pc = "token", ![c].child = 0]
    /\ UNCHANGED <<kToken, kChild, kCancelled>>
    /\ UNCHANGED <<hashVars, diffVars, extractVars, commandVars, listVars, swapVars, orderVars, patcherVars>>

\* The second locked block of run_skin: the new token is stored.
RunSkinToken(c) ==
    /\ kCalls[c].pc = "token"
    /\ kToken' = c
    /\ kCalls' = [kCalls EXCEPT ![c].pc = "inner"]
    /\ UNCHANGED <<kChild, kCancelled, kChildren>>
    /\ UNCHANGED <<hashVars, diffVars, extractVars, commandVars, listVars, swapVars, orderVars, patcherVars>>

\* run_skin_inner up to the start of mkoverlay: the settings, the skin
\* directory, the overlay directory or the tool can be missing, and the
\* token is tested.
RunSkinPrepare(c) ==
    /\ kCalls[c].pc = "inner"
    /\ \/ SkinReturn(c, "Err")
       \/ IF c \in kCancelled
          THEN SkinReturn(c, "Operation cancelled")
          ELSE kCalls' = [kCalls EXCEPT ![c].pc = "mkoverlay"]
    /\ UNCHANGED <<kToken, kChild, kCancelled, kChildren>>
    /\ UNCHANGED <<hashVars, diffVars, extractVars, commandVars, listVars, swapVars, orderVars, patcherVars>>

\* mkoverlay has ended: it or the spawn of runoverlay can fail, else the
\* child runs.
RunSkinSpawn(c) ==
    /\ kCalls[c].pc = "mkoverlay"
    /\ \/ SkinReturn(c, "Err") /\ UNCHANGED kChildren
       \/ /\ kChildren' = [kChildren EXCEPT ![c] = "alive"]
          /\ kCalls' = [kCalls EXCEPT ![c].pc = "spawned", ![c].child = c]
    /\ UNCHANGED <<kToken, kChild, kCancelled>>
    /\ UNCHANGED <<hashVars, diffVars, extractVars, commandVars, listVars, swapVars, orderVars, patcherVars>>

\* "Check cancellation before registering"
RunSkinCheck(c) ==
    /\ kCalls[c].pc = "spawned"
    /\ IF c \in kCancelled
       THEN KillHeld(c) /\ SkinReturn(c, "Operation cancelled")
       ELSE kCalls' = [kCalls EXCEPT ![c].pc = "store"] /\ UNCHANGED kChildren
    /\ UNCHANGED <<kToken, kChild, kCancelled>>
    /\ UNCHANGED <<hashVars, diffVars, extractVars, commandVars, listVars, swapVars, orderVars, patcherVars>>

\* The locked block of run_skin_inner: the token is tested again and the
\* child is assigned to child_process.  The Child that was there is
\* dropped, which does not kill its process.
RunSkinStore(c) ==
    /\ kCalls[c].pc = "store"
    /\ IF c \in kCancelled
       THEN /\ KillHeld(c)
            /\ SkinReturn(c, "Operation cancelled during spawn")
            /\ UNCHANGED kChild
       ELSE /\ kChild' = kCalls[c].child
            /\ SkinReturn(c, "Skin run active")
            /\ UNCHANGED kChildren
    /\ UNCHANGED <<kToken, kCancelled>>
    /\ UNCHANGED <<hashVars, diffVars, extractVars, commandVars, listVars, swapVars, orderVars, patcherVars>>

StopAllTake(c) ==
    /\ kCalls[c] = NoSkinCall
    /\ TakeTokenAndChild
    /\ kCalls' = [kCalls EXCEPT ![c] =
                     IF kChild # 0
                     THEN [op |-> "stop_all_mods", pc |-> "kill", child |-> kChild, result |-> ""]
                     ELSE [op |-> "stop_all_mods", pc |-> "returned", child |-> 0,
                           result |-> "No mods running"]]
    /\ UNCHANGED kChildren
    /\ UNCHANGED <<hashVars, diffVars, extractVars, commandVars, listVars, swapVars, orderVars, patcherVars>>

StopAllKill(c) ==
    /\ kCalls[c].op = "stop_all_mods"
    /\ kCalls[c].pc = "kill"
    /\ KillHeld(c)
    /\ SkinReturn(c, "Mods stopped")
    /\ UNCHANGED <<kToken, kChild, kCancelled>>
    /\ UNCHANGED <<hashVars, diffVars, extractVars, commandVars, listVars, swapVars, orderVars, patcherVars>>

----------------------------------------------------------------------------
(* Specifications *)

NextHash == AddFromFile \/ AddFromDir \/ ResolvePath
InitHash == HashtableNew /\ IdleDiff /\ IdleExtract /\ IdleCommand /\ IdleApp
SpecHash == InitHash /\ [][NextHash]_vars

NextDiff == CollectDiffs \/ PrintDiffs \/ WriteDiffsToCsv
InitDiff == DiffMounted /\ IdleExtract /\ IdleCommand /\ IdleApp
SpecDiff == InitDiff /\ [][NextDiff]_vars

NextExtract == ExtractChunk \/ ExtractReturn
SpecExtract == InitExtract /\ [][NextExtract]_vars

NextCommand ==
    CommandLoadHashtable \/ CommandCreateFilter \/ CommandExtractChunks
        \/ ExtractChunk \/ ExtractReturn \/ CommandReturn
SpecCommand == InitCommand /\ [][NextCommand]_vars

NextList == ListChunk \/ ListFinish
SpecList == InitList /\ [][NextList]_vars

NextSwap == RemapPath
SpecSwap == InitSwap /\ [][NextSwap]_vars

NextOrders == CollectDiffs \/ CollectAgain
SpecOrders == InitOrders /\ [][NextOrders]_vars

NextPatcher ==
    \/ \E c \in CallIds : StartPatcher(c)
    \/ \E c \in CallIds : StopPatcher(c)
    \/ \E c \in CallIds : StopJoin(c)
    \/ \E c \in CallIds : StopReturn(c)
    \/ \E t \in CallIds : ThreadInit(t)
    \/ \E t \in CallIds : ThreadFind(t)
    \/ \E t \in CallIds : ThreadHookBegin(t)
    \/ \E t \in CallIds : ThreadHookStep(t)
    \/ LeagueStart
SpecPatcher == InitPatcher /\ [][NextPatcher]_vars

NextHook ==
    \/ \E c \in HookCalls : StartPatcher(c)
    \/ \E c \in HookCalls : StopPatcher(c)
    \/ \E c \in HookCalls : StopJoin(c)
    \/ \E c \in HookCalls : StopReturn(c)
    \/ \E t \in HookCalls : ThreadInit(t)
    \/ \E t \in HookCalls : ThreadFind(t)
    \/ \E t \in HookCalls : ThreadHookBegin(t)
    \/ \E t \in HookCalls : ThreadHookStep(t)
    \/ LeagueStart
SpecHook == InitHook /\ [][NextHook]_vars

\* The scheduler is fair to every thread that can take a step, and each
\* call of the patcher DLL returns.
PatcherFairness ==
    /\ \A t \in CallIds : WF_vars(ThreadStep(t))
    /\ \A c \in CallIds : WF_vars(StopJoin(c))
    /\ \A c \in CallIds : WF_vars(StopReturn(c))
SpecPatcherFair == InitPatcher /\ [][NextPatcher]_vars /\ PatcherFairness

NextSkin ==
    \/ \E c \in SkinCalls : RunSkinTake(c)
    \/ \E c \in SkinCalls : RunSkinKill(c)
    \/ \E c \in SkinCalls : RunSkinToken(c)
    \/ \E c \in SkinCalls : RunSkinPrepare(c)
    \/ \E c \in SkinCalls : RunSkinSpawn(c)
    \/ \E c \in SkinCalls : RunSkinCheck(c)
    \/ \E c \in SkinCalls : RunSkinStore(c)
    \/ \E c \in SkinCalls : StopAllTake(c)
    \/ \E c \in SkinCalls : StopAllKill(c)
SpecSkin == InitSkin /\ [][NextSkin]_vars

NextTwice == ExtractChunk \/ ExtractReturn \/ ExtractAgain
SpecTwice == InitTwice /\ [][NextTwice]_vars

----------------------------------------------------------------------------
(* Properties of the chunk diff, under SpecDiff *)

Collected == dpc \in {"report", "done"}
DiffIdx == 1..Len(diffs)
CountKind(k) == Cardinality({i \in DiffIdx : diffs[i].kind = k})

\* C1: a chunk that is the old of a Renamed record is in no Removed record,
\* a chunk that is the new of a Renamed record is in no New record, and one
\* reference-only chunk plus one target-only chunk with equal checksums give
\* exactly one Renamed record and no New or Removed record.
C1_RenamedNotAlsoRemovedOrAdded ==
    Collected =>
        /\ \A i, j \in DiffIdx :
              diffs[i].kind = "Renamed" =>
                 /\ ~(diffs[j].kind = "Removed"
                        /\ diffs[j].old.path_hash = diffs[i].old.path_hash)
                 /\ ~(diffs[j].kind = "New"
                        /\ diffs[j].new.path_hash = diffs[i].new.path_hash)
        /\ \A r \in DOMAIN refWad, t \in DOMAIN tgtWad :
              (DOMAIN refWad = {r} /\ DOMAIN tgtWad = {t} /\ r # t /\ refWad[r] = tgtWad[t])
                 => /\ CountKind("Renamed") = 1
                    /\ CountKind("New") = 0
                    /\ CountKind("Removed") = 0

\* C2: the old of every Renamed record is a chunk whose hash is absent from
\* the target snapshot.
C2_RenamedOldIsReferenceOnly ==
    Collected =>
        \A i \in DiffIdx :
            diffs[i].kind = "Renamed" => diffs[i].old.path_hash \notin DOMAIN tgtWad

\* The roles a hash plays in the diff records.
RolesOf(h) ==
    {<<i, "Added">> : i \in {k \in DiffIdx : diffs[k].kind = "New" /\ diffs[k].new.path_hash = h}}
    \cup {<<i, "Removed">> : i \in {k \in DiffIdx : diffs[k].kind = "Removed" /\ diffs[k].old.path_hash = h}}
    \cup {<<i, "Modified">> : i \in {k \in DiffIdx : diffs[k].kind = "Modified" /\ diffs[k].old.path_hash = h}}
    \cup {<<i, "RenamedOld">> : i \in {k \in DiffIdx : diffs[k].kind = "Renamed" /\ diffs[k].old.path_hash = h}}
    \cup {<<i, "RenamedNew">> : i \in {k \in DiffIdx : diffs[k].kind = "Renamed" /\ diffs[k].new.path_hash = h}}

Unchanged(h) == h \in DOMAIN refWad /\ h \in DOMAIN tgtWad /\ refWad[h] = tgtWad[h]

\* C3: every hash of the two snapshots is in exactly one class: an unchanged
\* hash is in no diff record, every other hash in exactly one record and role.
C3_EveryHashInExactlyOneClass ==
    Collected =>
        \A h \in DOMAIN refWad \cup DOMAIN tgtWad :
            Cardinality(RolesOf(h)) = IF Unchanged(h) THEN 0 ELSE 1

\* C4: no reference chunk is the old of two Renamed records and no target
\* chunk is the new of two Renamed records.
C4_RenameConsumesBothChunks ==
    Collected =>
        \A i, j \in DiffIdx :
            (i # j /\ diffs[i].kind = "Renamed" /\ diffs[j].kind = "Renamed")
               => /\ diffs[i].old.path_hash # diffs[j].old.path_hash
                  /\ diffs[i].new.path_hash # diffs[j].new.path_hash

\* C5: the diff records returned, and the report printed or written to CSV,
\* are in ascending order of resolved path.
C5_ReportSortedByPath ==
    /\ Collected =>
          \A i, j \in DiffIdx :
              i < j => StrLeq(resolve_path(items, diffs[i].old.path_hash),
                              resolve_path(items, diffs[j].old.path_hash))
    /\ dpc = "done" =>
          \A i, j \in 1..Len(report) : i < j => StrLeq(report[i].path, report[j].path)

----------------------------------------------------------------------------
(* Properties of the hashtable, under SpecHash *)

LoadedHashes(log) == {log[i].hash : i \in 1..Len(log)}
LastPathFor(log, h) ==
    log[CHOOSE i \in 1..Len(log) :
            log[i].hash = h /\ \A j \in 1..Len(log) : log[j].hash = h => j <= i].path

\* C6: in every step, no entry is removed, an entry of a hash the step loads
\* no record for keeps its path, and afterwards resolve_path of every hash
\* ever loaded is the path of the most recently loaded record for it.
C6_LastWriterWinsNoRemoval ==
    [][ /\ \A h \in DOMAIN items :
              /\ h \in DOMAIN items'
              /\ (\A i \in (Len(loaded) + 1)..Len(loaded') : loaded'[i].hash # h)
                     => items'[h] = items[h]
        /\ \A h \in LoadedHashes(loaded') :
              resolve_path(items', h) = LastPathFor(loaded', h) ]_vars

\* Witness of C6: a record for a hash was loaded over an earlier record for it
\* with another path, while an entry for another hash is present.
C6_Witness ==
    /\ \E i, j \in 1..Len(loaded) :
          i < j /\ loaded[i].hash = loaded[j].hash /\ loaded[i].path # loaded[j].path
    /\ Cardinality(DOMAIN items) >= 2

HexLowerSet == {HexLower[i] : i \in 1..16}

\* C7: for a hash with no entry, resolve_path returns exactly 16 lowercase
\* hexadecimal digits that parse back, base 16, to the hash.
C7_FallbackRoundTrips ==
    (resolved.called /\ ~resolved.hit) =>
        /\ Len(resolved.path) = 16
        /\ \A i \in 1..Len(resolved.path) : resolved.path[i] \in HexLowerSet
        /\ FromStrRadix16(resolved.path) = [ok |-> TRUE, val |-> resolved.hash]

\* Witness of C7: the fallback was taken for 0x0123456789abcdef while the
\* hashtable holds entries for other hashes.
C7_Witness ==
    /\ resolved.called /\ ~resolved.hit
    /\ resolved.hash = <<291, 17767, 35243, 52719>>
    /\ items # EmptyTable

\* C8: add_from_file on a source with a line whose hash field is not valid
\* hexadecimal returns an error: it neither panics nor returns success.
C8_MalformedHashReturnsError ==
    (lastCall.op = "add_from_file" /\ lastCall.malformed) => lastCall.outcome = "err"

\* C9: when add_from_file fails on a malformed hash field, the hashtable holds
\* what it held before the call.
C9_RejectedSourceLeavesTableUnchanged ==
    (lastCall.op = "add_from_file" /\ lastCall.malformed /\ lastCall.outcome # "ok")
        => items = lastCall.before

----------------------------------------------------------------------------
(* Properties of the extraction, under SpecExtract *)

PassesPattern(h) ==
    xPattern.some => RegexIsMatch(xPattern.val, resolve_path(items, h)) = "match"
PassesKind(h) ==
    xTypes.some => identify_from_bytes(xChunks[h].data) \in xTypes.val
WriteEvents == {i \in 1..Len(xEvents) : xEvents[i].ev = "write"}
Visited == DOMAIN xChunks \ xRemaining

\* C10: every chunk written passes the path regex (when one is set) and the
\* kind filter (when one is set), and the extracted count counts written
\* chunks only, so a chunk either filter rejects is neither written nor counted.
C10_WrittenOnlyIfBothFiltersPass ==
    /\ \A i \in WriteEvents :
          PassesPattern(xEvents[i].hash) /\ PassesKind(xEvents[i].hash)
    /\ \A p \in DOMAIN xFiles :
          \E i \in WriteEvents : xEvents[i].path = p /\ PassesPattern(xEvents[i].hash)
                                   /\ PassesKind(xEvents[i].hash)
    /\ xCount = Cardinality(WriteEvents)
    /\ xCount <= Cardinality({h \in Visited : PassesPattern(h) /\ PassesKind(h)})

\* Witness of C10: a run with both filters set returned after writing a
\* chunk, skipping one on the regex and skipping one on its kind.
C10_Witness ==
    /\ xStatus = "ok"
    /\ xPattern.some /\ xTypes.some
    /\ xCount >= 1
    /\ \E h \in Visited : ~PassesPattern(h)
    /\ \E h \in Visited : PassesPattern(h) /\ ~PassesKind(h)


\* C11: with a kind filter that is present but empty, every chunk passes the
\* kind filter, as with no kind filter: when the run returns, every chunk the
\* regex admits was written and counted.
C11_EmptyKindFilterAdmitsAll ==
    (xStatus = "ok" /\ xTypes = Some({})) =>
        /\ \A h \in Visited :
              PassesPattern(h) => \E i \in WriteEvents : xEvents[i].hash = h
        /\ xCount = Cardinality({h \in Visited : PassesPattern(h)})

----------------------------------------------------------------------------
(* Properties of the extract command, under SpecCommand *)

FilterCreated == cPc \in {"filter_set", "extracting", "ok"} \/ cCause = "extraction"

\* Whether a pattern text declares case sensitivity with an inline flag: a
\* flag group of it sets or clears i.
DeclaresCase(p) == ParseRegex(p, 1, ParseStart).declares

\* C12: create_filter_pattern compiles a pattern that declares no case
\* sensitivity with an inline flag as the case-insensitive pattern (?i)p,
\* compiles a pattern that declares it unchanged, and returns no filter when
\* there is no pattern.
C12_CaseInsensitiveUnlessDeclared ==
    FilterCreated =>
        IF ~cArgs.pattern.some THEN xPattern = NoPattern
        ELSE /\ xPattern.some
             /\ xPattern.val = RegexNew(IF DeclaresCase(cArgs.pattern.val)
                                        THEN cArgs.pattern.val
                                        ELSE FlagOn \o cArgs.pattern.val).regex

CommandPatternInvalid ==
    cArgs.pattern.some /\ ~ParseRegex(cArgs.pattern.val, 1, ParseStart).ok
CommandHashtableMalformed ==
    \/ cArgs.hashtable.some /\ HasMalformedLine(cArgs.hashtable.val.lines)
    \/ \E i \in 1..Len(cArgs.hashtable_dir) : HasMalformedLine(cArgs.hashtable_dir[i].lines)
NoChunkWork ==
    /\ xEvents = <<>>
    /\ xRun = 1
    /\ xFirst = EmptyFiles
    /\ xFiles = EmptyFiles
    /\ xDirs = cArgs.output
    /\ xI = 0

\* C13: a hashtable source that does not parse and a filter regex that does
\* not compile make extract fail before any chunk work: with either, no chunk
\* is ever decompressed and no file or directory is created under the
\* destination, and the command never reaches the extraction.
C13_FailFastBeforeChunkWork ==
    /\ (CommandHashtableMalformed \/ CommandPatternInvalid) =>
          NoChunkWork /\ cPc \notin {"extracting", "ok"}
    /\ (cPc \in {"err", "panicked"} /\ cCause \in {"hashtable", "pattern"}) => NoChunkWork

\* Witness of C13: extract failed on its filter regex, with a hashtable
\* loaded and a container that holds chunks.
C13_Witness ==
    /\ cPc = "err" /\ cCause = "pattern"
    /\ items # EmptyTable
    /\ xChunks # [h \in {} |-> [data |-> "", corrupt |-> FALSE]]

----------------------------------------------------------------------------
(* Properties of the extraction loop, under SpecExtract *)

EventsOf(h, ev) == {i \in 1..Len(xEvents) : xEvents[i].ev = ev /\ xEvents[i].hash = h}
Admitted == {h \in DOMAIN xChunks : PassesPattern(h) /\ PassesKind(h)}

\* C14: when extract_wad_chunks returns Ok, the count is the number of chunks
\* that pass both filters, each of them was written exactly once (through
\* the long-filename fallback or not), and no other chunk was written.
C14_CountIsWrittenChunks ==
    xStatus = "ok" =>
        /\ xCount = Cardinality(Admitted)
        /\ \A h \in Admitted : Cardinality(EventsOf(h, "write")) = 1
        /\ \A h \in DOMAIN xChunks \ Admitted : EventsOf(h, "write") = {}

\* Witness of C14: a run returned Ok after a write through the fallback,
\* another write and a chunk skipped by a filter.
C14_Witness ==
    /\ xStatus = "ok"
    /\ xCount >= 2
    /\ \E i \in WriteEvents : xEvents[i].via = "fallback"
    /\ Admitted # DOMAIN xChunks

\* A chunk the loop was to write: it passes the regex, and it does not
\* decompress or its kind passes the kind filter.
ToWrite(h) == PassesPattern(h) /\ (xChunks[h].corrupt \/ PassesKind(h))

\* C15: a chunk that was to be written and was not aborts the batch: the run
\* is in error, that chunk's one progress call and one decompression are the
\* last events, it is not counted as done, and the chunks after it are never
\* visited.
C15_FailureAbortsBatch ==
    /\ \A h \in Visited :
          (ToWrite(h) /\ EventsOf(h, "write") = {}) =>
              /\ xStatus = "err"
              /\ Cardinality(EventsOf(h, "progress")) = 1
              /\ Cardinality(EventsOf(h, "decompress")) = 1
              /\ Len(xEvents) >= 2
              /\ xEvents[Len(xEvents)] = [ev |-> "decompress", hash |-> h,
                                          path |-> resolve_path(items, h)]
              /\ xEvents[Len(xEvents) - 1].ev = "progress"
              /\ xEvents[Len(xEvents) - 1].hash = h
              /\ xI = Cardinality(Visited) - 1
    /\ xStatus = "err" =>
          \E h \in Visited : ToWrite(h) /\ EventsOf(h, "write") = {}

\* Witness of C15: a write failed on something other than the file name,
\* after a chunk was written and with chunks still to visit.
C15_Witness ==
    /\ xStatus = "err"
    /\ xError.what = "write"
    /\ xCount >= 1
    /\ xRemaining # {}

HashedName(h) ==
    IF KindExtension(identify_from_bytes(xChunks[h].data)).some
    THEN format_chunk_path_hash(h) \o <<".">>
            \o KindExtension(identify_from_bytes(xChunks[h].data)).val
    ELSE format_chunk_path_hash(h)
LongNamed(h) == Len(PathFileName(resolve_path(items, h))) > NameMax

C17_AbortNamesChunk ==
    xStatus = "err" => xError.names_chunk

\* <original stem>.ltk[.<sniffed extension>] in the parent directory of the
\* resolved path of the chunk at h.
LtkPath(h) ==
    PathSetFileName(resolve_path(items, h),
                    build_ltk_name(PathFileStem(resolve_path(items, h)), xChunks[h].data))
PrimaryWrites == {i \in WriteEvents : xEvents[i].via = "primary"}

\* C18: the hex-name policy applies only to a chunk with no hashtable entry,
\* which is written at its hex name plus the sniffed extension; a chunk whose
\* path comes from the hashtable is written at that path, or, when the path
\* has no extension or is an existing directory, at <stem>.ltk[.<extension>]
\* in the same parent directory.
C18_HexPolicyOnlyForUnresolved ==
    \A i \in PrimaryWrites :
        IF xEvents[i].hash \notin DOMAIN items
        THEN xEvents[i].path = HashedName(xEvents[i].hash)
        ELSE IF ~PathExtension(resolve_path(items, xEvents[i].hash)).some
        THEN xEvents[i].path = LtkPath(xEvents[i].hash)
        ELSE \/ xEvents[i].path = LtkPath(xEvents[i].hash)
             \/ /\ xEvents[i].path = resolve_path(items, xEvents[i].hash)
                /\ xEvents[i].path \notin xDirs

\* C19: the final output path is never an existing directory, so no write
\* fails on a directory standing at its target.
C19_WriteNeverTargetsDirectory ==
    xError.what # "write"

----------------------------------------------------------------------------
(* Properties of two runs over one destination, under SpecTwice *)

\* C20: after a second run of the same extraction over the destination a
\* successful first run left, the files and their bytes are those the first
\* run left, whatever the iteration order of either run.
C20_SecondRunLeavesSameFiles ==
    (xRun = 2 /\ xStatus \in {"ok", "err"}) => xFiles = xFirst

----------------------------------------------------------------------------
(* Properties of the progress reports and output paths, under SpecExtract *)

ProgressEvents == {i \in 1..Len(xEvents) : xEvents[i].ev = "progress"}
\* The number of progress calls made before event i.
ProgressBefore(i) == Cardinality({j \in ProgressEvents : j < i})

\* C23: in a run that does not abort the progress callback is called once
\* for each chunk, skipped or not; the k-th call (k = 0..n-1) carries k over
\* the total chunk count n, so the fractions are strictly increasing.
C23_ProgressOncePerChunk ==
    /\ \A i \in ProgressEvents :
          /\ xEvents[i].i = ProgressBefore(i)
          /\ xEvents[i].n = Cardinality(DOMAIN xChunks)
          /\ xEvents[i].i < xEvents[i].n
    /\ \A i, j \in ProgressEvents :
          i < j => xEvents[i].i * xEvents[j].n < xEvents[j].i * xEvents[i].n
    /\ \A h \in DOMAIN xChunks :
          Cardinality(EventsOf(h, "progress")) = IF h \in Visited THEN 1 ELSE 0
    /\ xStatus = "ok" => Cardinality(ProgressEvents) = Cardinality(DOMAIN xChunks)

\* Witness of C23: a run over three chunks returned Ok after a chunk skipped
\* by the regex, a chunk skipped by its kind and a chunk written.
C23_Witness ==
    /\ xStatus = "ok"
    /\ Cardinality(ProgressEvents) = 3
    /\ xCount = 1
    /\ \E h \in Visited : ~PassesPattern(h)
    /\ \E h \in Visited : PassesPattern(h) /\ ~PassesKind(h)

\* C24: the progress call for a chunk comes after the chunk's filters were
\* evaluated: after its decompression, which the kind filter needs.
C24_ProgressAfterClassification ==
    \A h \in Visited :
        \A i \in EventsOf(h, "progress"), j \in EventsOf(h, "decompress") : j < i

\* C26: two chunks with distinct resolved paths are never written to the same
\* output path in one run.
C26_FinalPathsInjective ==
    \A i, j \in WriteEvents :
        (xEvents[i].hash # xEvents[j].hash
            /\ resolve_path(items, xEvents[i].hash) # resolve_path(items, xEvents[j].hash))
          => xEvents[i].path # xEvents[j].path

----------------------------------------------------------------------------
(* C21: range of the compression ratio of list *)

\* The ratios list has computed, each with the sizes it was computed from:
\* one per listed chunk, and the overall ratio once list has finished.
ListedRatios ==
    { [ratio |-> lInfo[k].compression_ratio,
       compressed |-> lInfo[k].compressed_size,
       uncompressed |-> lInfo[k].uncompressed_size] : k \in DOMAIN lInfo }
    \cup (IF lPc = "done"
          THEN {[ratio |-> lOverall, compressed |-> lTotals.compressed,
                 uncompressed |-> lTotals.uncompressed]}
          ELSE {})

RatioIsZero(r) == r.num = 0
RatioIsHundred(r) == r.num = 100 * r.den
RatioAtLeastZero(r) == r.num >= 0
RatioBelowHundred(r) == r.num < 100 * r.den

\* C21 (as stated): a ratio of list is 0 exactly when the uncompressed size
\* is 0, and lies in [0,100) when the uncompressed size is positive and the
\* compressed size is not above it; the overall ratio likewise.
C21_RatioZeroOnlyForEmpty ==
    \A e \in ListedRatios :
       /\ RatioIsZero(e.ratio) <=> e.uncompressed = 0
       /\ (e.uncompressed > 0 /\ e.compressed <= e.uncompressed)
             => (RatioAtLeastZero(e.ratio) /\ RatioBelowHundred(e.ratio))

\* C21 (amended): a ratio of list is 0 when the uncompressed size is 0 and
\* when the two sizes are equal, it is 100 when the compressed size is 0 and
\* the uncompressed size is positive, and it lies in [0,100] whenever the
\* compressed size is not above the uncompressed size; the overall ratio
\* likewise.
C21_RatioRange ==
    \A e \in ListedRatios :
       /\ e.uncompressed = 0 => RatioIsZero(e.ratio)
       /\ e.compressed = e.uncompressed => RatioIsZero(e.ratio)
       /\ (e.compressed = 0 /\ e.uncompressed > 0) => RatioIsHundred(e.ratio)
       /\ e.compressed <= e.uncompressed
             => (RatioAtLeastZero(e.ratio)
                 /\ (RatioBelowHundred(e.ratio) \/ RatioIsHundred(e.ratio)))

\* list has finished with a chunk stored uncompressed (ratio 0 with a
\* positive size), a chunk of compressed size 0 (ratio 100) and totals whose
\* ratio lies strictly between.
C21_Witness ==
    /\ lPc = "done"
    /\ \E k \in DOMAIN lInfo :
          lInfo[k].uncompressed_size > 0
          /\ lInfo[k].compressed_size = lInfo[k].uncompressed_size
    /\ \E k \in DOMAIN lInfo :
          lInfo[k].uncompressed_size > 0 /\ lInfo[k].compressed_size = 0
    /\ lTotals.compressed > 0
    /\ lTotals.compressed < lTotals.uncompressed

----------------------------------------------------------------------------
(* C22: remap changes only the skin folder and the file-name part *)

\* "Skin" followed by the two-digit skin id, as the game's paths spell it.
SkinName(n) == <<"S","k","i","n">> \o (IF n < 10 THEN <<"0">> ELSE <<>>) \o Decimal(n)
SkinFolder(n) == <<"S","k","i","n","s","/">> \o SkinName(n) \o <<"/">>
SkinFilePart(champion, n) == champion \o <<"_">> \o SkinName(n)

\* The path with the folder segment and the file-name part changed and
\* every other character as it was.
RemappedToBase(champion, from_skin, path) ==
    StrReplace(StrReplace(path, SkinFolder(from_skin), SkinFolder(0)),
               SkinFilePart(champion, from_skin), champion \o <<"_","B","a","s","e">>)

\* C22: remap to skin 0 of a path that contains Skins/Skin<from>/ and
\* <Champion>_Skin<from> returns that path with the two parts changed to
\* Skins/Skin00/ and <Champion>_Base and every other character, with its
\* letter case, as it was.
C22_RemapChangesOnlySkinParts ==
    (/\ sPc = "returned"
     /\ sTo = 0
     /\ sFrom # sTo
     /\ Contains(sPath, SkinFolder(sFrom))
     /\ Contains(sPath, SkinFilePart(sChampion, sFrom)))
        => sResult = Some(RemappedToBase(sChampion, sFrom, sPath))

----------------------------------------------------------------------------
(* C25: the diff records do not depend on the maps' iteration order *)

DiffSet(ds) == { ds[k] : k \in DOMAIN ds }

\* No two chunks of the reference container have the same checksum.
ChecksumsDistinct(wad) ==
    \A h1, h2 \in DOMAIN wad : wad[h1] = wad[h2] => h1 = h2

\* C25: when no two reference chunks share a checksum, two runs of
\* collect_diffs over the same two chunk sets that differ only in the
\* iteration order of the maps produce the same set of diff records.
C25_DiffSetOrderIndependent ==
    (dRun = 2 /\ ChecksumsDistinct(refWad)) => DiffSet(diffs) = DiffSet(dFirst)

\* The second run visited two reference chunks of different checksums in
\* another order than the first and reported a rename.
C25_Witness ==
    /\ dRun = 2
    /\ ChecksumsDistinct(refWad)
    /\ Cardinality(DOMAIN refWad) = 2
    /\ diffs # dFirst
    /\ \E k \in DOMAIN diffs : diffs[k].kind = "Renamed"
    /\ \E k \in DOMAIN diffs : diffs[k].kind = "Removed"

----------------------------------------------------------------------------
(* C27, C28, C30: the patcher thread *)

\* The patcher threads that have been spawned and have not exited.
AliveThreads == { t \in CallIds : pThreads[t].pc \notin {"unborn", "exited"} }

\* C27: under every interleaving of start_patcher and stop_patcher calls at
\* most one patcher thread is alive: a start_patcher call returns Ok only
\* when no thread started before is still running.
C27_AtMostOnePatcherThread == Cardinality(AliveThreads) <= 1

\* C28: every stop_patcher call that has passed the is-running check and
\* waits in join eventually returns, the thread it stopped having exited.
C28_StopEventuallyReturns ==
    \A c \in CallIds :
       (pCalls[c].pc = "join")
          ~> (pCalls[c].pc = "returned" /\ pCalls[c].op = "stop"
              /\ pCalls[c].handle \in CallIds /\ is_finished(pCalls[c].handle))

CeilDiv(a, b) == (a + b - 1) \div b

\* The threads whose hook_begin returned a non-zero handle.
Hooked == { t \in DOMAIN pThreads : pThreads[t].hook # 0 }

\* C30: a thread whose hook_begin succeeded has called hook_end exactly
\* once, with its thread id and handle, when run_patcher_loop has returned,
\* and not at all before; it never calls hook_continue after hook_end; and
\* with timeout T it makes at most ceil(T / 100) hook_continue calls, which
\* is the number it has made when it ends with HookTimeout.
C30_HookSessionClosedOnce ==
    \A t \in Hooked :
       LET th == pThreads[t]
       IN /\ th.pc = "exited" => th.ends = << <<th.tid, th.hook>> >>
          /\ th.pc # "exited" => th.ends = <<>>
          /\ ~th.late
          /\ th.continues <= CeilDiv(th.timeout, HOOK_STEP_MS)
          /\ th.result = "HookTimeout"
                => th.continues = CeilDiv(th.timeout, HOOK_STEP_MS)

\* Two threads have left the hook loop: one timed out after two steps with
\* a timeout of 150 ms, the other was stopped by request after a step.
C30_Witness ==
    /\ \E t \in Hooked : /\ pThreads[t].result = "HookTimeout"
                         /\ pThreads[t].timeout = 150
                         /\ pThreads[t].continues = 2
    /\ \E t \in Hooked : /\ pThreads[t].result = "Stopped"
                         /\ pThreads[t].continues = 1
                         /\ Len(pThreads[t].ends) = 1

----------------------------------------------------------------------------
(* C29: the runoverlay child processes *)

Unkilled == { k \in DOMAIN kChildren : kChildren[k] = "alive" }

\* The children a call in progress holds in a local variable: taken from
\* the state to be killed, or spawned and not yet stored.
HeldByCall == { kCalls[c].child : c \in {d \in DOMAIN kCalls : kCalls[d].pc # "returned"} }

\* C29: under every interleaving of run_skin and stop_all_mods calls every
\* runoverlay child that has not been killed is the one stored in
\* child_process (or still in the hands of the call that is about to store
\* or to kill it): no child is stored over a live one.
C29_UnkilledChildIsStored ==
    \A k \in Unkilled : k = kChild \/ k \in HeldByCall

=============================================================================
